---- MODULE Spec2Model ----
(***************************************************************************)
(* State-machine model of github_fetcher: the user discovery driver        *)
(* (GitHubFetcher.fetch_users_by_location, _fetch_users_with_date_split,   *)
(* _paginated_user_search) and the repository pagination driver            *)
(* (GitHubFetcher.search_repositories).                                    *)
(*                                                                         *)
(* Calendar dates are day offsets from 2008-01-01 (START_DATE = 0), so     *)
(* timedelta arithmetic is integer arithmetic.  Optional values are        *)
(* sequences of length at most one: None is <<>> and a value x is <<x>>.   *)
(***************************************************************************)
EXTENDS Integers, Sequences, FiniteSets, TLC

\* ------------------------------------------------------------------ bounds
LastDay == 4         \* date.today() as a day offset from 2008-01-01
MaxNodes == 2        \* nodes an arbitrary server serves for one search
MaxPages == 2        \* pages an arbitrary server serves for one search
MaxUsersArg == 2     \* largest max_users argument tried
MaxRepoNodes == 3    \* nodes the server serves for one repository search
MaxRepos == 2        \* largest max_repos argument tried
MaxBulkRepos == 205  \* max_repos of a search that runs over full pages
MaxAccounts == 2     \* longest usernames list given to fetch_repos_for_users
MaxRetriesArg == 6   \* largest max_retries given to exponential_backoff
MaxLangs == 1
MaxCountArg == 2
MaxCliRepos == 2
MaxPieces == 3
MaxNwoLen == 3
Now0 == 10           \* clock reading (seconds) when the client is called

\* ------------------------------------------------------- program constants
START_DATE == 0          \* date(2008, 1, 1)
SPLIT_LIMIT == 1000      \* "if count <= 1000"
FIRST_1000 == 1000       \* "_paginated_user_search(query, 1000)"
USER_PAGE == 100         \* "min(100, max_count - len(users))"
SAVE_INTERVAL == 100     \* GitHubFetcher.SAVE_INTERVAL
REPOS_PAGE == 100        \* _fetch_user_repos: "first": 100
BATCH_SIZE == 10         \* GitHubFetcher.BATCH_SIZE
MIN_RATE_LIMIT == 100    \* GitHubFetcher.MIN_RATE_LIMIT
WAIT_BUFFER == 5         \* calculate_wait_time: "wait_seconds + 5"
MAX_RETRIES == 3         \* execute: exponential_backoff(max_retries=3, ...)
BASE_DELAY == 2          \* execute: exponential_backoff(..., base_delay=2.0, ...)
MAX_DELAY == 60          \* exponential_backoff: max_delay default
EXPONENTIAL_BASE == 2    \* exponential_backoff: exponential_base default
DEFAULT_MAX_RETRIES == 5 \* exponential_backoff: max_retries default
DEFAULT_BASE_DELAY == 1  \* exponential_backoff: base_delay default

\* ---------------------------------------------------------------- helpers
None == <<>>
Some(x) == <<x>>
Truthy(opt) == IF opt = None THEN FALSE ELSE opt[1] # 0
Min(a, b) == IF a <= b THEN a ELSE b
Range(f) == {f[i] : i \in DOMAIN f}
NoDup(f) == Cardinality(Range(f)) = Len(f)
Days == START_DATE..LastDay

VARIABLES
    server,       \* "arbitrary" | "consistent": how the remote endpoint answers
    pop,          \* consistent server: accounts created on each day
    max_users,    \* argument of fetch_users_by_location
    include_orgs, \* argument of fetch_users_by_location
    fpc,          \* position in fetch_users_by_location
    all_users,    \* fetch_users_by_location: all_users
    kind,         \* base_query of the running date-split call: "user" | "org"
    d_max,        \* max_users parameter of the running date-split call
    users,        \* _fetch_users_with_date_split: users
    ranges,       \* _fetch_users_with_date_split: ranges (the work queue)
    dpc,          \* position in _fetch_users_with_date_split
    cur,          \* the range (s, e) popped last
    count,        \* the userCount read for cur; None when the count request failed
    max_count,    \* _paginated_user_search: max_count
    p_users,      \* _paginated_user_search: users (new_users once returned)
    cursor,       \* _paginated_user_search: cursor
    served,       \* nodes served in the running paginated search
    pages,        \* page requests answered in the running paginated search
    p_first,      \* _paginated_user_search: "first" of the request issued last
    p_error       \* _paginated_user_search: the request issued last raised

VARIABLES
    max_repos,       \* search_repositories: max_repos
    output_path,     \* search_repositories: whether an output path is given
    location_filter, \* search_repositories: location_filter (optional text)
    s_pc,            \* position in search_repositories
    repos,           \* GitHubFetcher._repos, the accumulated buffer
    s_cursor,        \* search_repositories: cursor
    total_matched,   \* search_repositories: total_matched
    total_fetched,   \* search_repositories: total_fetched (the scanned count)
    nodes,           \* search_repositories: nodes of the page fetched last
    page_info,       \* search_repositories: page_info of the page fetched last
    s_after,         \* variables["after"] of the page request issued last
    requests,        \* page requests issued by search_repositories
    persisted,       \* rows of the output file; None while it does not exist
    s_served,        \* nodes served to search_repositories so far
    s_error          \* the request issued last raised ("except Exception")

svars == <<max_repos, output_path, location_filter, s_pc, repos, s_cursor,
           total_matched, total_fetched, nodes, page_info, s_after, requests,
           persisted, s_served, s_error>>

VARIABLES
    usernames,       \* fetch_repos_for_users: usernames (accounts are numbered)
    u_pc,            \* position in fetch_repos_for_users / _fetch_user_repos
    u_idx,           \* index in usernames of the account of the for loop
    user_repos,      \* _fetch_user_repos: repos
    u_cursor,        \* _fetch_user_repos: cursor
    u_requests,      \* page requests issued for the account of the for loop
    u_error,         \* the request issued last raised ("except Exception")
    checked,         \* wait_for_rate_limit was called since the last request
    min_stars,       \* fetch_repos_for_users: min_stars
    include_forks,   \* fetch_repos_for_users: include_forks
    extra_filter,    \* fetch_repos_for_users: extra_filter (a string, "" if none)
    u_query,         \* _fetch_user_repos: query
    u_sent,          \* _fetch_user_repos: variables of the request issued last
    u_nodes,         \* _fetch_user_repos: nodes
    u_page_info,     \* _fetch_user_repos: page_info
    t_pc             \* position in fetch_by_location_two_step

uvars == <<usernames, u_pc, u_idx, user_repos, u_cursor, u_requests, u_error, checked,
           min_stars, include_forks, extra_filter, u_query, u_sent, u_nodes,
           u_page_info, t_pc>>

VARIABLES
    c_op,            \* client operation called: "execute" or "wait"
    c_pc,            \* position in wait_for_rate_limit / execute
    rate_limit,      \* GitHubGraphQLClient._rate_limit
    now,             \* the clock, in seconds
    max_retries,     \* exponential_backoff: max_retries
    base_delay,      \* exponential_backoff: base_delay
    attempt,         \* wrapper: attempt
    e_calls,         \* calls of the wrapped function in the running execute
    e_delays,        \* delays slept by the wrapper in the running execute
    response,        \* the response handled last (None: none yet)
    e_value,         \* value returned by the execute that ended last
    e_exc,           \* exception raised by the operation (None: none)
    w_slept,         \* seconds slept by wait_for_rate_limit itself
    w_probes         \* check_rate_limit calls made by wait_for_rate_limit

cvars == <<c_op, c_pc, rate_limit, now, max_retries, base_delay, attempt, e_calls,
           e_delays, response, e_value, e_exc, w_slept, w_probes>>

VARIABLES
    x_pc,            \* extract_repo_data: "called", "returned" or "raised"
    x_node,          \* extract_repo_data: repo_node
    x_out,           \* the dictionary extract_repo_data returned (None: none)
    x_exc            \* the exception extract_repo_data raised (None: none)

xvars == <<x_pc, x_node, x_out, x_exc>>

VARIABLES
    m_pc,            \* position in main of scripts/fetch_repos.py
    m_token,         \* main: a token was given (option or environment)
    m_mode,          \* main: "repo", "query", "location", or "none"
    m_csv,           \* main: output_path.suffix == ".csv"
    m_cause,         \* how the fetch of main ended ("": it has not ended)
    m_buffer,        \* len(fetcher._repos)
    m_saves,         \* buffer sizes save_to_csv / save_to_parquet were called with
    m_exit           \* exit status of the process (None: still running)

mvars == <<m_pc, m_token, m_mode, m_csv, m_cause, m_buffer, m_saves, m_exit>>

VARIABLES
    b_pc,            \* build_search_query: "called", "once" or "twice"
    b_language,      \* build_search_query: language (None: not given)
    b_min_stars,     \* build_search_query: min_stars
    b_custom,        \* build_search_query: custom_query (None: not given)
    b_out,           \* the query build_search_query returned (None: none yet)
    b_again          \* the query it returned for b_out as custom_query

bvars == <<b_pc, b_language, b_min_stars, b_custom, b_out, b_again>>

VARIABLES
    r_pc,            \* fetch_repo_details: "called", "wait", "lookup", "returned", "raised"
    r_nwo,           \* fetch_repo_details: nwo
    r_sent,          \* variables of the lookup request (None: none was sent)
    r_waits,         \* calls of wait_for_rate_limit made by fetch_repo_details
    r_cause,         \* how the lookup request ended ("": it was not made)
    r_out,           \* the record fetch_repo_details returned (None: None)
    r_exc            \* the exception fetch_repo_details raised (None: none)

rvars == <<r_pc, r_nwo, r_sent, r_waits, r_cause, r_out, r_exc>>

nvars == <<bvars, rvars>>

ovars == <<xvars, mvars, nvars>>

dvars == <<server, pop, max_users, include_orgs, fpc, all_users, kind, d_max,
           users, ranges, dpc, cur, count, max_count, p_users, cursor, served, pages, p_first, p_error>>

vars == <<dvars, svars, uvars, cvars, ovars>>

\* ------------------------------------------------- the remote search endpoint
\* Sizes of one day's population under the consistent server.
PopSizes == {0, 501}
\* userCount values an arbitrary server reports.
ArbitraryCounts == {0, 1, SPLIT_LIMIT, SPLIT_LIMIT + 1}

\* Accounts of the population p created before day d.
RECURSIVE CreatedBefore(_, _)
CreatedBefore(p, d) ==
    IF d <= START_DATE THEN 0 ELSE p[d - 1] + CreatedBefore(p, d - 1)

\* Logins are numbered in order of creation; organizations follow the users.
KindBase(k) == IF k = "user" THEN 0 ELSE CreatedBefore(pop, LastDay + 1)

\* The logins matching "<base query> created:s..e" under the consistent server.
Matching(k, s, e) ==
    (KindBase(k) + CreatedBefore(pop, s) + 1) .. (KindBase(k) + CreatedBefore(pop, e + 1))

NullNode == [null |-> TRUE, login |-> 0]
LoginNode(l) == [null |-> FALSE, login |-> l]      \* login 0: no login field
\* Logins an arbitrary server returns.
ArbitraryLogins == {1, 2}
ArbitraryNodes == {NullNode, LoginNode(0)} \cup {LoginNode(l) : l \in ArbitraryLogins}
ArbitraryPages(room) ==
    UNION {[1..n -> ArbitraryNodes] : n \in 0..room}

\* Outcomes of client.wait_for_rate_limit: it returns, or its quota probe fails
\* and the failure propagates to the caller.
WaitOutcomes == IF server = "consistent" THEN {"ok"} ELSE {"ok", "raise"}

\* Answers to USER_COUNT_QUERY for the range [s, e].
CountAnswers(k, s, e) ==
    IF server = "consistent"
    THEN {[ok |-> TRUE, userCount |-> Cardinality(Matching(k, s, e))]}
    ELSE {[ok |-> FALSE, userCount |-> 0]}
         \cup {[ok |-> TRUE, userCount |-> c] : c \in ArbitraryCounts}

\* Answers to USER_SEARCH_QUERY (first, after) for the range [s, e].
PageAnswers(k, s, e, first, aft) ==
    IF server = "consistent"
    THEN LET m == Matching(k, s, e)
             lo == KindBase(k) + CreatedBefore(pop, s) + 1
             off == IF aft = None THEN 0 ELSE aft[1]
             n == Min(first, Cardinality(m) - off)
         IN {[ok |-> TRUE,
              nodes |-> [i \in 1..n |-> LoginNode(lo + off + i - 1)],
              hasNextPage |-> off + n < Cardinality(m),
              endCursor |-> Some(off + n)]}
    ELSE {[ok |-> FALSE, nodes |-> <<>>, hasNextPage |-> FALSE, endCursor |-> None]}
         \cup {[ok |-> TRUE, nodes |-> ns, hasNextPage |-> h,
                  endCursor |-> IF h THEN c ELSE None] :
                 ns \in ArbitraryPages(MaxNodes - served),
                 h \in IF pages + 1 < MaxPages THEN BOOLEAN ELSE {FALSE},
                 c \in {None, Some(1)}}

\* ------------------------------------------------------ discovery: helpers
\* A for loop over items[lo..hi] is folded over its running state st (the list
\* built so far and whether the loop has hit its break), left half first; once
\* the loop has hit its break the remaining items are skipped.

\* _paginated_user_search, body of "for node in nodes": append the login of a
\* node that has one, break at max_count.
CollectStep(st, node, mc) ==
    IF st.brk THEN st
    ELSE IF ~node.null /\ node.login # 0
         THEN LET us2 == Append(st.us, node.login)
              IN [us |-> us2, brk |-> Len(us2) >= mc]
         ELSE st

RECURSIVE CollectFold(_, _, _, _, _)
CollectFold(st, ns, lo, hi, mc) ==
    IF st.brk \/ lo > hi THEN st
    ELSE IF lo = hi THEN CollectStep(st, ns[lo], mc)
    ELSE LET mid == (lo + hi) \div 2
         IN CollectFold(CollectFold(st, ns, lo, mid, mc), ns, mid + 1, hi, mc)

CollectLogins(us, ns, mc) ==
    CollectFold([us |-> us, brk |-> FALSE], ns, 1, Len(ns), mc).us

\* count <= 1000 branch, body of "for u in new_users": append a login not seen
\* yet, break once max_users is reached.
AppendCappedStep(st, u, mx) ==
    IF st.brk THEN st
    ELSE IF u \notin Range(st.us)
         THEN LET us2 == Append(st.us, u)
              IN [us |-> us2, brk |-> Truthy(mx) /\ Len(us2) >= mx[1]]
         ELSE st

\* Mutant of AppendStep: the "if u not in users" test is missing.
AppendStepNoTest(st, u, mx) ==
    [us |-> Append(st.us, u), brk |-> FALSE]

\* count > 1000, days <= 1 branch, body of "for u in new_users": append a login
\* not seen yet.
AppendStep(st, u, mx) ==
    IF u \notin Range(st.us)
    THEN [us |-> Append(st.us, u), brk |-> FALSE]
    ELSE st

RECURSIVE AppendFold(_, _, _, _, _, _)
AppendFold(pos, st, new, lo, hi, mx) ==
    IF st.brk \/ lo > hi THEN st
    ELSE IF lo = hi
         THEN IF pos = "merge_le1000" THEN AppendCappedStep(st, new[lo], mx)
              ELSE AppendStep(st, new[lo], mx)
    ELSE LET mid == (lo + hi) \div 2
         IN AppendFold(pos, AppendFold(pos, st, new, lo, mid, mx), new, mid + 1, hi, mx)

\* The for loop that follows the _paginated_user_search call at position pos.
MergeNewUsers(pos, us, new, mx) ==
    AppendFold(pos, [us |-> us, brk |-> FALSE], new, 1, Len(new), mx).us

\* mid = s + timedelta(days=days // 2)
MidPoint(s, e) == s + ((e - s) \div 2)
\* Mutant of SplitRange: the first half ends a day early.
SplitRangeGap(s, e, rest) ==
    <<<<s, MidPoint(s, e) - 1>>>> \o (<<<<MidPoint(s, e) + 1, e>>>> \o rest)

\* Mutant of SplitRange: the second half starts at mid, not at mid + 1.
SplitRangeOverlap(s, e, rest) ==
    <<<<s, MidPoint(s, e)>>>> \o (<<<<MidPoint(s, e), e>>>> \o rest)

\* Mutant of SplitRange: the halves are appended at the back of the queue.
SplitRangeBack(s, e, rest) ==
    rest \o <<<<s, MidPoint(s, e)>>, <<MidPoint(s, e) + 1, e>>>>

\* ranges.insert(0, (mid + 1, e)); ranges.insert(0, (s, mid))
SplitRange(s, e, rest) ==
    <<<<s, MidPoint(s, e)>>>> \o (<<<<MidPoint(s, e) + 1, e>>>> \o rest)

\* Mutant of Unsplittable: only a range of a single day is unsplittable.
UnsplittableSameDay(s, e) == e = s

\* days = (end - start).days; "if days <= 1"
Unsplittable(s, e) == e - s <= 1

\* The queue after a failed count request if the range were queued again.
AfterCountFailureRequeue(s, e, rest) == rest \o <<<<s, e>>>>

\* "except Exception as ex: ... continue": the queue after a failed count
\* request for the popped range [s, e].
AfterCountFailure(s, e, rest) == rest

\* while ranges and (max_users is None or len(users) < max_users)
LoopGuard ==
    ranges # <<>> /\ (IF d_max = None THEN TRUE ELSE Len(users) < d_max[1])

\* ------------------------------------------------------ discovery: actions
\* The frame of _paginated_user_search before a call and after its result has
\* been consumed.
NoSearchFrame ==
    /\ max_count' = 0
    /\ p_users' = <<>>
    /\ cursor' = None
    /\ served' = 0
    /\ pages' = 0
    /\ p_first' = 0
    /\ p_error' = FALSE

\* Entry of _paginated_user_search(query, mc), called at position pos.
SearchEntry(pos, mc) ==
    /\ dpc' = pos
    /\ max_count' = mc
    /\ p_users' = <<>>
    /\ cursor' = None
    /\ served' = 0
    /\ pages' = 0
    /\ p_first' = 0
    /\ p_error' = FALSE

\* State on entry of _fetch_users_with_date_split.
DateSplitEntry(k, mx) ==
    /\ kind' = k
    /\ d_max' = mx
    /\ users' = <<>>
    /\ ranges' = <<<<START_DATE, LastDay>>>>
    /\ dpc' = "loop"

\* wait_for_rate_limit raised: the failure leaves _paginated_user_search,
\* _fetch_users_with_date_split and fetch_users_by_location; users and ranges
\* are shown as they were when it was raised.
Raised ==
    /\ fpc' = "raised"
    /\ dpc' = "loop"
    /\ NoSearchFrame
    /\ UNCHANGED <<all_users, kind, d_max, users, count>>

\* One pass of the while loop of _fetch_users_with_date_split, up to the
\* continue, the split, or the call of _paginated_user_search.
DateSplitIterate ==
    /\ fpc \in {"users", "orgs"}
    /\ dpc = "loop"
    /\ LoopGuard
    /\ UNCHANGED <<svars, uvars, cvars, ovars>>
    /\ LET s == Head(ranges)[1]
           e == Head(ranges)[2]
           rest == Tail(ranges)
       IN /\ cur' = <<s, e>>
          /\ UNCHANGED <<server, pop, max_users, include_orgs>>
          /\ \E w \in WaitOutcomes : \E ans \in CountAnswers(kind, s, e) :
               IF w = "raise"
               THEN ranges' = rest /\ Raised
               ELSE /\ UNCHANGED <<fpc, all_users, kind, d_max, users>>
                    /\ IF ~ans.ok
                       THEN /\ ranges' = AfterCountFailure(s, e, rest)
                            /\ count' = None
                            /\ UNCHANGED <<dpc, max_count, p_users, cursor, served, pages, p_first, p_error>>
                       ELSE /\ count' = Some(ans.userCount)
                            /\ IF ans.userCount = 0
                               THEN /\ ranges' = rest
                                    /\ UNCHANGED <<dpc, max_count, p_users, cursor, served, pages, p_first, p_error>>
                               ELSE IF ans.userCount <= SPLIT_LIMIT
                               THEN /\ ranges' = rest
                                    /\ SearchEntry("paginate_le1000",
                                         Min(ans.userCount,
                                             IF Truthy(d_max) THEN d_max[1] - Len(users)
                                             ELSE ans.userCount))
                               ELSE IF Unsplittable(s, e)
                               THEN /\ ranges' = rest
                                    /\ SearchEntry("paginate_gt1000", FIRST_1000)
                               ELSE /\ ranges' = SplitRange(s, e, rest)
                                    /\ UNCHANGED <<dpc, max_count, p_users, cursor, served, pages, p_first, p_error>>

\* The page size without the cap of USER_PAGE.
PageSizeUncapped(mc, n) == mc - n

\* "first": min(100, max_count - len(users))
PageSize(mc, n) == Min(USER_PAGE, mc - n)

\* Position of the caller's for loop that consumes the result of the search.
MergePosition(pos) ==
    IF pos = "paginate_le1000" THEN "merge_le1000" ELSE "merge_gt1000"

\* One pass of the while loop of _paginated_user_search; a break, or max_count
\* reached at the loop test, returns p_users to the caller.
\* max_count is at least 1 at every call (count >= 1, remaining >= 1), so the
\* loop test passes on entry.
PaginatedPage ==
    /\ fpc \in {"users", "orgs"}
    /\ dpc \in {"paginate_le1000", "paginate_gt1000"}
    /\ Len(p_users) < max_count
    /\ UNCHANGED <<server, pop, max_users, include_orgs, ranges, cur, users>>
    /\ UNCHANGED <<svars, uvars, cvars, ovars>>
    /\ LET first == PageSize(max_count, Len(p_users))
       IN \E w \in WaitOutcomes :
          \E ans \in PageAnswers(kind, cur[1], cur[2], first, cursor) :
            IF w = "raise"
            THEN Raised
            ELSE /\ pages' = pages + 1
                 /\ p_first' = first
                 /\ p_error' = ~ans.ok
                 /\ served' = served + Len(ans.nodes)
                 /\ UNCHANGED <<fpc, all_users, kind, d_max, count, max_count>>
                 /\ IF ~ans.ok
                    THEN /\ dpc' = MergePosition(dpc)
                         /\ UNCHANGED <<p_users, cursor>>
                    ELSE LET got == CollectLogins(p_users, ans.nodes, max_count)
                         IN /\ p_users' = got
                            /\ IF ~ans.hasNextPage
                               THEN /\ dpc' = MergePosition(dpc)
                                    /\ UNCHANGED cursor
                               ELSE /\ cursor' = ans.endCursor
                                    /\ dpc' = IF Len(got) >= max_count
                                              THEN MergePosition(dpc) ELSE dpc

\* "while len(users) < max_count" fails at the first test: the empty list is
\* returned without a request.  The driver never calls with such a max_count;
\* a direct call can.
PaginatedEmpty ==
    /\ fpc \in {"users", "orgs"}
    /\ dpc \in {"paginate_le1000", "paginate_gt1000"}
    /\ pages = 0
    /\ ~(Len(p_users) < max_count)
    /\ dpc' = MergePosition(dpc)
    /\ UNCHANGED <<server, pop, max_users, include_orgs, fpc, all_users, kind,
                   d_max, users, ranges, cur, count, max_count, p_users, cursor,
                   served, pages, p_first, p_error>>
    /\ UNCHANGED <<svars, uvars, cvars, ovars>>

\* Values of max_count in a direct call of _paginated_user_search.
PaginatedArgs == (-1..MaxCountArg) \cup {FIRST_1000}

\* _paginated_user_search(query, max_count) has been called.
PaginatedCalled ==
    /\ server = "arbitrary"
    /\ pop = [d \in Days |-> 0]
    /\ max_users = None
    /\ include_orgs = FALSE
    /\ fpc = "users"
    /\ all_users = <<>>
    /\ kind = "user"
    /\ d_max = None
    /\ users = <<>>
    /\ ranges = <<>>
    /\ dpc = "paginate_le1000"
    /\ cur = <<START_DATE, LastDay>>
    /\ count = None
    /\ max_count \in PaginatedArgs
    /\ p_users = <<>>
    /\ cursor = None
    /\ served = 0
    /\ pages = 0
    /\ p_first = 0
    /\ p_error = FALSE

\* The for loop over new_users that follows the search; then the next pass.
MergeNew ==
    /\ fpc \in {"users", "orgs"}
    /\ dpc \in {"merge_le1000", "merge_gt1000"}
    /\ users' = MergeNewUsers(dpc, users, p_users, d_max)
    /\ dpc' = "loop"
    /\ NoSearchFrame
    /\ UNCHANGED <<server, pop, max_users, include_orgs, fpc, all_users, kind,
                   d_max, ranges, cur, count>>
    /\ UNCHANGED <<svars, uvars, cvars, ovars>>

\* The while loop of _fetch_users_with_date_split ends: return users to
\* fetch_users_by_location, which extends all_users and goes on.
DateSplitReturn ==
    /\ fpc \in {"users", "orgs"}
    /\ dpc = "loop"
    /\ ~LoopGuard
    /\ all_users' = all_users \o users
    /\ UNCHANGED <<server, pop, max_users, include_orgs, cur, count, max_count,
                   p_users, cursor, served, pages, p_first, p_error>>
    /\ UNCHANGED <<svars, uvars, cvars, ovars>>
    /\ IF fpc = "users" /\ include_orgs
       THEN /\ fpc' = "orgs"
            /\ DateSplitEntry("org",
                   IF Truthy(max_users)
                   THEN Some(max_users[1] - Len(all_users \o users))
                   ELSE None)
       ELSE /\ fpc' = "returned"
            /\ UNCHANGED <<kind, d_max, users, ranges, dpc>>

MaxUsersArgs == {None} \cup {Some(n) : n \in 0..MaxUsersArg}

\* fetch_users_by_location has called _fetch_users_with_date_split for users.
InitDiscovery ==
    /\ max_users \in MaxUsersArgs
    /\ include_orgs \in BOOLEAN
    /\ fpc = "users"
    /\ all_users = <<>>
    /\ kind = "user"
    /\ d_max = max_users
    /\ users = <<>>
    /\ ranges = <<<<START_DATE, LastDay>>>>
    /\ dpc = "loop"
    /\ cur = <<START_DATE, LastDay>>
    /\ count = None
    /\ max_count = 0
    /\ p_users = <<>>
    /\ cursor = None
    /\ served = 0
    /\ pages = 0
    /\ p_first = 0
    /\ p_error = FALSE

\* No discovery is running.
IdleDiscovery ==
    /\ server = "arbitrary"
    /\ pop = [d \in Days |-> 0]
    /\ max_users = None
    /\ include_orgs = FALSE
    /\ fpc = "idle"
    /\ all_users = <<>>
    /\ kind = "user"
    /\ d_max = None
    /\ users = <<>>
    /\ ranges = <<>>
    /\ dpc = "loop"
    /\ cur = <<START_DATE, LastDay>>
    /\ count = None
    /\ max_count = 0
    /\ p_users = <<>>
    /\ cursor = None
    /\ served = 0
    /\ pages = 0
    /\ p_first = 0
    /\ p_error = FALSE

\* ------------------------------------------------ search_repositories: data
\* Text is a sequence of characters; str.lower() maps each character.
LowerChar(c) == IF c = "P" THEN "p" ELSE IF c = "E" THEN "e" ELSE c
Lower(str) == [i \in 1..Len(str) |-> LowerChar(str[i])]
\* needle in hay
Contains(hay, needle) ==
    \E i \in 0..(Len(hay) - Len(needle)) :
        \A j \in 1..Len(needle) : hay[i + j] = needle[j]

\* Owner locations the server returns, and location filters the caller gives.
LocationTexts == {<<"x", "P", "e">>, <<"e", "p">>}
FilterTexts == {<<>>, <<"p", "E">>, <<"e">>}
\* The owner field of a repository node: null, or an owner whose location is
\* null or a text.
NoOwner == [null |-> TRUE, location |-> None]
Owner(loc) == [null |-> FALSE, location |-> loc]
Owners == {NoOwner, Owner(None)} \cup {Owner(Some(x)) : x \in LocationTexts}
RepoNullNode == [null |-> TRUE, nameWithOwner |-> 0, owner |-> NoOwner]
RepoNodes ==
    {RepoNullNode} \cup {[null |-> FALSE, nameWithOwner |-> 1, owner |-> o] : o \in Owners}
RepoPages(room) == UNION {[1..n -> RepoNodes] : n \in 0..room}
Cursors == {None, Some(1)}

\* Full pages ("first": BATCH_SIZE) of a long result list: the first k nodes
\* of a page are repositories of owners in "xPe", the others of owners in "ep"
\* (k varies only under a location filter).
BulkNode(loc) == [null |-> FALSE, nameWithOwner |-> 1, owner |-> Owner(Some(loc))]
BulkKept == IF location_filter = None THEN {BATCH_SIZE} ELSE {7, BATCH_SIZE}
BulkAnswers ==
    {[ok |-> TRUE,
      nodes |-> [i \in 1..BATCH_SIZE |->
                    IF i <= k THEN BulkNode(<<"x", "P", "e">>) ELSE BulkNode(<<"e", "p">>)],
      hasNextPage |-> TRUE,
      endCursor |-> Some(1)] : k \in BulkKept}

\* Outcomes of client.wait_for_rate_limit before a page of search_repositories.
SearchWaitOutcomes == IF server = "bulk" THEN {"ok"} ELSE {"ok", "raise"}

\* Answers to SEARCH_REPOS_QUERY: a failure after the retries, or a page.
SearchAnswers ==
    IF server = "bulk" THEN BulkAnswers ELSE
    {[ok |-> FALSE, nodes |-> <<>>, hasNextPage |-> FALSE, endCursor |-> None]}
    \cup {[ok |-> TRUE, nodes |-> ns, hasNextPage |-> h, endCursor |-> c] :
            ns \in RepoPages(MaxRepoNodes - s_served),
            h \in IF requests + 1 < MaxPages THEN BOOLEAN ELSE {FALSE},
            c \in Cursors}

\* extract_repo_data, the fields the pagination driver reads.
ExtractRepoData(node) ==
    [nwo |-> node.nameWithOwner,
     owner_location |-> IF node.owner.null THEN Some(<<>>) ELSE node.owner.location]

\* (repo_data.get('owner_location') or '').lower()
OwnerLocationLower(repo_data) ==
    IF repo_data.owner_location = None THEN <<>>
    ELSE Lower(repo_data.owner_location[1])

\* "if location_filter": None and the empty text are falsy.
HasFilter(f) == IF f = None THEN FALSE ELSE f[1] # <<>>

\* Mutant of KeepsRecord: the filter is never applied.
KeepsRecordUnfiltered(f, repo_data) == TRUE

\* The location filter keeps the record (no "continue").
KeepsRecord(f, repo_data) ==
    IF HasFilter(f) THEN Contains(OwnerLocationLower(repo_data), Lower(f[1]))
    ELSE TRUE

\* Mutant of NodeStep: the break at max_repos is missing.
NodeStepNoBreak(st, node, f, mx) ==
    IF node.null THEN st
    ELSE LET repo_data == ExtractRepoData(node)
         IN IF ~KeepsRecord(f, repo_data)
            THEN [st EXCEPT !.fetched = @ + 1]
            ELSE [repos |-> Append(st.repos, repo_data),
                  matched |-> st.matched + 1,
                  fetched |-> st.fetched + 1,
                  brk |-> FALSE]

\* Body of "for node in nodes" of search_repositories.
NodeStep(st, node, f, mx) ==
    IF st.brk \/ node.null THEN st
    ELSE LET repo_data == ExtractRepoData(node)
         IN IF ~KeepsRecord(f, repo_data)
            THEN [st EXCEPT !.fetched = @ + 1]
            ELSE [repos |-> Append(st.repos, repo_data),
                  matched |-> st.matched + 1,
                  fetched |-> st.fetched + 1,
                  brk |-> st.matched + 1 >= mx]

RECURSIVE NodeFold(_, _, _, _, _)
NodeFold(st, ns, i, f, mx) ==
    IF i > Len(ns) THEN st
    ELSE NodeFold(NodeStep(st, ns[i], f, mx), ns, i + 1, f, mx)

\* Mutant of NextCursor: the cursor is never advanced.
NextCursorStale(pi) == None

\* cursor = page_info.get('endCursor')
NextCursor(pi) == pi.endCursor

\* Mutant of SaveProgress: nothing is ever written.
SaveProgressSkipped(buffer, file) == file

\* _save_progress: nothing is written for an empty buffer, else the file is
\* overwritten with the buffer.
SaveProgress(buffer, file) == IF buffer = <<>> THEN file ELSE Some(buffer)

\* --------------------------------------------- search_repositories: actions
\* After the while loop: the final save, then return self._repos.
SearchFinish(buffer, file) ==
    /\ s_pc' = "returned"
    /\ persisted' = IF output_path THEN SaveProgress(buffer, file) ELSE file

\* One pass of the while loop of search_repositories; a break runs on to the
\* final save and the return.
SearchPage ==
    /\ s_pc = "loop"
    /\ total_matched < max_repos
    /\ UNCHANGED <<dvars, uvars, cvars, ovars>>
    /\ UNCHANGED <<max_repos, output_path, location_filter>>
    /\ \E w \in SearchWaitOutcomes : \E ans \in SearchAnswers :
         IF w = "raise"
         THEN /\ s_pc' = "raised"
              /\ UNCHANGED <<repos, s_cursor, total_matched, total_fetched, nodes,
                             page_info, s_after, requests, persisted, s_served, s_error>>
         ELSE /\ s_after' = s_cursor
              /\ requests' = requests + 1
              /\ IF ~ans.ok
                 THEN /\ s_error' = TRUE
                      /\ UNCHANGED s_served
                      /\ SearchFinish(repos, persisted)
                      /\ UNCHANGED <<repos, s_cursor, total_matched, total_fetched,
                                     nodes, page_info>>
                 ELSE /\ s_error' = FALSE
                      /\ s_served' = s_served + Len(ans.nodes)
                      /\ nodes' = ans.nodes
                      /\ page_info' = [hasNextPage |-> ans.hasNextPage,
                                       endCursor |-> ans.endCursor]
                      /\ IF ans.nodes = <<>>
                         THEN /\ SearchFinish(repos, persisted)
                              /\ UNCHANGED <<repos, s_cursor, total_matched,
                                             total_fetched>>
                         ELSE LET st == NodeFold([repos |-> repos,
                                                  matched |-> total_matched,
                                                  fetched |-> total_fetched,
                                                  brk |-> FALSE],
                                                 ans.nodes, 1, location_filter, max_repos)
                                  saved == IF output_path /\ st.matched % SAVE_INTERVAL = 0
                                           THEN SaveProgress(st.repos, persisted)
                                           ELSE persisted
                              IN /\ repos' = st.repos
                                 /\ total_matched' = st.matched
                                 /\ total_fetched' = st.fetched
                                 /\ IF ~ans.hasNextPage
                                    THEN /\ SearchFinish(st.repos, saved)
                                         /\ UNCHANGED s_cursor
                                    ELSE /\ s_cursor' = NextCursor(page_info')
                                         /\ s_pc' = "loop"
                                         /\ persisted' = saved

\* The loop test fails (max_repos reached): final save and return.
SearchReturn ==
    /\ s_pc = "loop"
    /\ ~(total_matched < max_repos)
    /\ SearchFinish(repos, persisted)
    /\ UNCHANGED <<dvars, uvars, cvars, ovars>>
    /\ UNCHANGED <<max_repos, output_path, location_filter, repos, s_cursor,
                   total_matched, total_fetched, nodes, page_info, s_after, requests,
                   s_served, s_error>>

\* search_repositories has been called: the state before its loop.
SearchCalled ==
    /\ max_repos \in 0..MaxRepos
    /\ output_path \in BOOLEAN
    /\ location_filter \in {None} \cup {Some(x) : x \in FilterTexts}
    /\ s_pc = "loop"
    /\ repos = <<>>
    /\ s_cursor = None
    /\ total_matched = 0
    /\ total_fetched = 0
    /\ nodes = <<>>
    /\ page_info = [hasNextPage |-> FALSE, endCursor |-> None]
    /\ s_after = None
    /\ requests = 0
    /\ persisted = None
    /\ s_served = 0
    /\ s_error = FALSE

\* Content of an output file left by an earlier operation.
EarlierFile == <<[nwo |-> 2, owner_location |-> None]>>

\* search_repositories has been called with the path of a file that an
\* earlier operation wrote.
SearchCalledOverFile ==
    /\ max_repos \in 0..MaxRepos
    /\ output_path = TRUE
    /\ location_filter \in {None} \cup {Some(x) : x \in FilterTexts}
    /\ s_pc = "loop"
    /\ repos = <<>>
    /\ s_cursor = None
    /\ total_matched = 0
    /\ total_fetched = 0
    /\ nodes = <<>>
    /\ page_info = [hasNextPage |-> FALSE, endCursor |-> None]
    /\ s_after = None
    /\ requests = 0
    /\ persisted = Some(EarlierFile)
    /\ s_served = 0
    /\ s_error = FALSE

\* No repository search is running.
IdleSearch ==
    /\ max_repos = 0
    /\ output_path = FALSE
    /\ location_filter = None
    /\ s_pc = "idle"
    /\ repos = <<>>
    /\ s_cursor = None
    /\ total_matched = 0
    /\ total_fetched = 0
    /\ nodes = <<>>
    /\ page_info = [hasNextPage |-> FALSE, endCursor |-> None]
    /\ s_after = None
    /\ requests = 0
    /\ persisted = None
    /\ s_served = 0
    /\ s_error = FALSE

\* ------------------------------------------------- fetch_repos_for_users
\* Nodes of a page of "user:<login> ..." results: null, or a repository of the
\* account a.
AccountNodes(a) == {RepoNullNode, [null |-> FALSE, nameWithOwner |-> a, owner |-> NoOwner]}
AccountPages(a, room) == UNION {[1..n -> AccountNodes(a)] : n \in 0..room}

\* On the "bulk" server every request succeeds with a page of this many
\* repositories of the account (at most REPOS_PAGE).
BulkAccountSizes == {25, 30}

\* Answers to SEARCH_REPOS_QUERY for the account a: a failure after the
\* retries, or a page; the end cursor of a page names its position.
AccountAnswers(a) ==
    IF server = "bulk"
    THEN {[ok |-> TRUE,
           nodes |-> [i \in 1..n |-> [null |-> FALSE, nameWithOwner |-> a,
                                      owner |-> NoOwner]],
           hasNextPage |-> h, endCursor |-> Some(u_requests + 1)] :
            n \in BulkAccountSizes,
            h \in IF u_requests + 1 < MaxPages THEN BOOLEAN ELSE {FALSE}}
    ELSE
    {[ok |-> FALSE, nodes |-> <<>>, hasNextPage |-> FALSE, endCursor |-> None]}
    \cup {[ok |-> TRUE, nodes |-> ns, hasNextPage |-> h,
            endCursor |-> IF ns = <<>> THEN None ELSE Some(u_requests + 1)] :
            ns \in AccountPages(a, MaxNodes),
            h \in IF u_requests + 1 < MaxPages THEN BOOLEAN ELSE {FALSE}}

\* " ".join(query_parts): the parts, each a sequence of pieces of text, with
\* one space between two parts.
RECURSIVE JoinParts(_)
JoinParts(parts) ==
    IF parts = <<>> THEN <<>>
    ELSE IF Len(parts) = 1 THEN parts[1]
    ELSE parts[1] \o <<" ">> \o JoinParts(Tail(parts))

\* The search query of _fetch_user_repos with the stars test dropped.
UserQueryAlwaysStars(username, stars, forks, extra) ==
    JoinParts(<<<<"user:", ToString(username)>>>>
              \o <<<<"stars:>=", ToString(stars)>>>>
              \o (IF ~forks THEN <<<<"fork:false">>>> ELSE <<>>)
              \o (IF extra # "" THEN <<<<extra>>>> ELSE <<>>))

\* The search query _fetch_user_repos builds for an account.
UserQuery(username, stars, forks, extra) ==
    JoinParts(<<<<"user:", ToString(username)>>>>
              \o (IF stars > 0 THEN <<<<"stars:>=", ToString(stars)>>>> ELSE <<>>)
              \o (IF ~forks THEN <<<<"fork:false">>>> ELSE <<>>)
              \o (IF extra # "" THEN <<<<extra>>>> ELSE <<>>))

\* "for node in nodes: if not node: continue; repos.append(extract_repo_data(node))"
RECURSIVE AccountFold(_, _, _)
AccountFold(rs, ns, i) ==
    IF i > Len(ns) THEN rs
    ELSE AccountFold(IF ns[i].null THEN rs ELSE Append(rs, ExtractRepoData(ns[i])),
                     ns, i + 1)

\* wait_for_rate_limit returns, or raises what its request raised.
AccountWaitOutcomes == IF server = "bulk" THEN {"ok"} ELSE {"ok", "raise"}

\* Top of the for loop of fetch_repos_for_users: the rate-limit check, then the
\* call of _fetch_user_repos for the account.
AccountWait ==
    /\ u_pc = "loop"
    /\ u_idx <= Len(usernames)
    /\ UNCHANGED <<dvars, svars, cvars, ovars>>
    /\ UNCHANGED <<usernames, u_idx, u_error>>
    /\ UNCHANGED <<min_stars, include_forks, extra_filter, u_sent, u_nodes,
                   u_page_info, t_pc>>
    /\ \E w \in AccountWaitOutcomes :
         IF w = "raise"
         THEN /\ u_pc' = "raised"
              /\ UNCHANGED <<user_repos, u_cursor, u_requests, checked, u_query>>
         ELSE /\ u_pc' = "fetch"
              /\ checked' = TRUE
              /\ user_repos' = <<>>
              /\ u_cursor' = None
              /\ u_requests' = 0
              /\ u_query' = UserQuery(usernames[u_idx], min_stars, include_forks,
                                      extra_filter)

\* The end of an account with self._repos replaced instead of extended.
AccountDoneReplace(rs) ==
    /\ repos' = rs
    /\ persisted' = IF output_path /\ Len(rs) % SAVE_INTERVAL = 0
                    THEN SaveProgress(rs, persisted)
                    ELSE persisted
    /\ u_idx' = u_idx + 1
    /\ u_pc' = "loop"

\* _fetch_user_repos returns rs: extend self._repos, save at a multiple of
\* SAVE_INTERVAL, go to the next account.
AccountDone(rs) ==
    /\ repos' = repos \o rs
    /\ persisted' = IF output_path /\ Len(repos \o rs) % SAVE_INTERVAL = 0
                    THEN SaveProgress(repos \o rs, persisted)
                    ELSE persisted
    /\ u_idx' = u_idx + 1
    /\ u_pc' = "loop"

\* One pass of the "while True" loop of _fetch_user_repos; a break returns to
\* fetch_repos_for_users.
AccountPage ==
    /\ u_pc = "fetch"
    /\ UNCHANGED <<dvars, cvars, ovars>>
    /\ UNCHANGED <<max_repos, output_path, location_filter, s_pc, s_cursor,
                   total_matched, total_fetched, nodes, page_info, s_after,
                   requests, s_served, s_error>>
    /\ UNCHANGED usernames
    /\ UNCHANGED <<min_stars, include_forks, extra_filter, u_query, t_pc>>
    /\ checked' = FALSE
    /\ u_requests' = u_requests + 1
    /\ u_sent' = Some([query |-> u_query, first |-> REPOS_PAGE, after |-> u_cursor])
    /\ \E ans \in AccountAnswers(usernames[u_idx]) :
         IF ~ans.ok
         THEN /\ u_error' = TRUE
              /\ AccountDone(user_repos)
              /\ UNCHANGED <<user_repos, u_cursor, u_nodes, u_page_info>>
         ELSE /\ u_error' = FALSE
              /\ u_nodes' = ans.nodes
              /\ u_page_info' = [hasNextPage |-> ans.hasNextPage,
                                 endCursor |-> ans.endCursor]
              /\ IF ans.nodes = <<>>
                 THEN /\ AccountDone(user_repos)
                      /\ UNCHANGED <<user_repos, u_cursor>>
                 ELSE LET rs == AccountFold(user_repos, ans.nodes, 1)
                      IN /\ user_repos' = rs
                         /\ IF ~ans.hasNextPage
                            THEN /\ AccountDone(rs)
                                 /\ UNCHANGED u_cursor
                            ELSE /\ u_cursor' = NextCursor(ans)
                                 /\ UNCHANGED <<repos, persisted, u_idx, u_pc>>

\* The for loop is exhausted: final save and return of self._repos.
AccountsReturn ==
    /\ u_pc = "loop"
    /\ u_idx > Len(usernames)
    /\ u_pc' = "returned"
    /\ persisted' = IF output_path THEN SaveProgress(repos, persisted) ELSE persisted
    /\ UNCHANGED <<dvars, cvars, ovars>>
    /\ UNCHANGED <<max_repos, output_path, location_filter, s_pc, repos, s_cursor,
                   total_matched, total_fetched, nodes, page_info, s_after,
                   requests, s_served, s_error>>
    /\ UNCHANGED <<usernames, u_idx, user_repos, u_cursor, u_requests, u_error, checked>>
    /\ UNCHANGED <<min_stars, include_forks, extra_filter, u_query, u_sent, u_nodes,
                   u_page_info, t_pc>>

\* Arguments of fetch_repos_for_users and fetch_by_location_two_step.
MinStarsArgs == {0, 3}
ExtraFilters == {"", "language:python"}

\* fetch_repos_for_users has been called: the state before its for loop.
AccountsCalled ==
    /\ usernames \in {[i \in 1..n |-> i] : n \in 0..MaxAccounts}
    /\ u_pc = "loop"
    /\ u_idx = 1
    /\ user_repos = <<>>
    /\ u_cursor = None
    /\ u_requests = 0
    /\ u_error = FALSE
    /\ checked = FALSE
    /\ min_stars \in MinStarsArgs
    /\ include_forks \in BOOLEAN
    /\ extra_filter \in ExtraFilters
    /\ u_query = <<>>
    /\ u_sent = None
    /\ u_nodes = <<>>
    /\ u_page_info = [hasNextPage |-> FALSE, endCursor |-> None]
    /\ t_pc = "idle"

\* fetch_repos_for_users is not running.
IdleAccounts ==
    /\ usernames = <<>>
    /\ u_pc = "idle"
    /\ u_idx = 1
    /\ user_repos = <<>>
    /\ u_cursor = None
    /\ u_requests = 0
    /\ u_error = FALSE
    /\ checked = FALSE
    /\ min_stars = 1
    /\ include_forks = FALSE
    /\ extra_filter = ""
    /\ u_query = <<>>
    /\ u_sent = None
    /\ u_nodes = <<>>
    /\ u_page_info = [hasNextPage |-> FALSE, endCursor |-> None]
    /\ t_pc = "idle"

\* ----------------------------------------------- fetch_by_location_two_step
\* "if not usernames" with the test dropped.
NoAccountsNever(us) == FALSE

\* "if not usernames".
NoAccounts(us) == us = <<>>

\* fetch_users_by_location has returned all_users to
\* fetch_by_location_two_step: return [] at once, or call
\* fetch_repos_for_users, which resets self._repos and starts its for loop.
TwoStepCall ==
    /\ t_pc = "discovered"
    /\ fpc = "returned"
    /\ UNCHANGED <<dvars, cvars, ovars>>
    /\ UNCHANGED <<max_repos, output_path, location_filter, s_pc, s_cursor,
                   total_matched, total_fetched, nodes, page_info, s_after,
                   requests, persisted, s_served, s_error>>
    /\ UNCHANGED <<user_repos, u_cursor, u_requests, u_error, checked, min_stars,
                   include_forks, extra_filter, u_query, u_sent, u_nodes,
                   u_page_info>>
    /\ IF NoAccounts(all_users)
       THEN /\ t_pc' = "returned_empty"
            /\ UNCHANGED <<usernames, u_pc, u_idx, repos>>
       ELSE /\ t_pc' = "repos"
            /\ usernames' = all_users
            /\ repos' = <<>>
            /\ u_idx' = 1
            /\ u_pc' = "loop"

\* Lists fetch_users_by_location can return: logins of distinct accounts.
DiscoveredLists ==
    {us \in UNION {[1..n -> ArbitraryLogins] : n \in 0..MaxAccounts} : NoDup(us)}

\* fetch_by_location_two_step after its call of fetch_users_by_location.
TwoStepDiscovered ==
    /\ server = "arbitrary"
    /\ pop = [d \in Days |-> 0]
    /\ max_users = None
    /\ include_orgs = TRUE
    /\ fpc = "returned"
    /\ all_users \in DiscoveredLists
    /\ kind = "org"
    /\ d_max = None
    /\ users = <<>>
    /\ ranges = <<>>
    /\ dpc = "loop"
    /\ cur = <<START_DATE, LastDay>>
    /\ count = None
    /\ max_count = 0
    /\ p_users = <<>>
    /\ cursor = None
    /\ served = 0
    /\ pages = 0
    /\ p_first = 0
    /\ p_error = FALSE
    /\ usernames = <<>>
    /\ u_pc = "idle"
    /\ u_idx = 1
    /\ user_repos = <<>>
    /\ u_cursor = None
    /\ u_requests = 0
    /\ u_error = FALSE
    /\ checked = FALSE
    /\ min_stars \in MinStarsArgs
    /\ include_forks \in BOOLEAN
    /\ extra_filter \in ExtraFilters
    /\ u_query = <<>>
    /\ u_sent = None
    /\ u_nodes = <<>>
    /\ u_page_info = [hasNextPage |-> FALSE, endCursor |-> None]
    /\ t_pc = "discovered"

\* ------------------------------------------------------ GitHubGraphQLClient
\* A rateLimit object: each key is absent (None) or holds an integer; resetAt
\* is the reset time in seconds on the clock of "now".
Snapshot(rem, rst) == [remaining |-> rem, resetAt |-> rst]
EmptySnapshot == Snapshot(None, None)
ResetTimes == {Now0 - 6, Now0 - 4, Now0 + 10}
Snapshots ==
    {Snapshot(rem, rst) :
        rem \in {None, Some(MIN_RATE_LIMIT - 1), Some(MIN_RATE_LIMIT)},
        rst \in {None} \cup {Some(x) : x \in ResetTimes}}

\* The "data" member of a response: absent, null, or an object that may hold
\* a rateLimit key (null or an object).
NoData == [kind |-> "absent", hasRL |-> FALSE, rl |-> None]
NullData == [kind |-> "null", hasRL |-> FALSE, rl |-> None]
DataObj(has, rl) == [kind |-> "obj", hasRL |-> has, rl |-> rl]
DataValues ==
    {NoData, NullData, DataObj(FALSE, None), DataObj(TRUE, None)}
    \cup {DataObj(TRUE, Some(s)) : s \in Snapshots}
ErrorLists == {None, Some(<<"a">>), Some(<<"a", "b">>)}
Responses == {[data |-> d, errors |-> e] : d \in DataValues, e \in ErrorLists}
NoResponse == [data |-> NoData, errors |-> None]

\* Outcomes of one call of the wrapped function: session.post or
\* raise_for_status raises a RequestException, or a response is parsed.
CallOutcomes ==
    {[fail |-> TRUE, resp |-> NoResponse]}
    \cup {[fail |-> FALSE, resp |-> r] : r \in Responses}

\* Exceptions: type and detail.
Exc(type, detail) == [type |-> type, detail |-> detail]
\* '; '.join(error_messages)
RECURSIVE JoinMessages(_)
JoinMessages(ms) ==
    IF ms = <<>> THEN <<>>
    ELSE IF Len(ms) = 1 THEN ms
    ELSE <<Head(ms), "; ">> \o JoinMessages(Tail(ms))
GraphQLError(ms) == Exc("ValueError", <<"GraphQL errors: ">> \o JoinMessages(ms))

RECURSIVE Pow(_, _)
Pow(b, n) == IF n = 0 THEN 1 ELSE b * Pow(b, n - 1)

\* Mutant of BackoffDelay: the delay is not capped.
BackoffDelayUncapped(base, n) == base * Pow(EXPONENTIAL_BASE, n)

\* delay = min(base_delay * (exponential_base ** attempt), max_delay)
BackoffDelay(base, n) == Min(base * Pow(EXPONENTIAL_BASE, n), MAX_DELAY)

\* Mutant of UpdateSnapshot: keys absent from the new object keep their value.
UpdateSnapshotMerged(old, new) ==
    IF old = None \/ new = None THEN new
    ELSE Some(Snapshot(IF new[1].remaining = None THEN old[1].remaining
                       ELSE new[1].remaining,
                       IF new[1].resetAt = None THEN old[1].resetAt
                       ELSE new[1].resetAt))

\* self._rate_limit = result['data']['rateLimit']
UpdateSnapshot(old, new) == new

\* Mutant of Falsy: the snapshot is never taken as missing.
FalsyNever(rl) == FALSE

\* "not self._rate_limit": None and the empty object are falsy.
Falsy(rl) == IF rl = None THEN TRUE ELSE rl[1] = EmptySnapshot

\* self._rate_limit.get('remaining', 0)
Remaining(s) == IF s.remaining = None THEN 0 ELSE s.remaining[1]

\* calculate_wait_time(reset_at) at clock reading t
CalculateWaitTime(reset_at, t) ==
    LET wait_seconds == reset_at - t
    IN IF wait_seconds + WAIT_BUFFER > 0 THEN wait_seconds + WAIT_BUFFER ELSE 0

\* Body of execute on a parsed response: the outcome and the new snapshot.
\* 'rateLimit' in result['data'] raises TypeError when data is null.
HandleResponse(r, old) ==
    IF r.data.kind = "null"
    THEN [exc |-> Some(Exc("TypeError", <<>>)), value |-> None, rl |-> old]
    ELSE LET new == IF r.data.kind = "obj" /\ r.data.hasRL
                    THEN UpdateSnapshot(old, r.data.rl) ELSE old
         IN IF r.errors # None
            THEN [exc |-> Some(GraphQLError(r.errors[1])), value |-> None, rl |-> new]
            ELSE [exc |-> None,
                  value |-> Some(IF r.data.kind = "absent" THEN DataObj(FALSE, None)
                                 ELSE r.data),
                  rl |-> new]

\* Entry of the wrapper of execute.
ExecuteEntry ==
    /\ attempt' = 0
    /\ e_calls' = 0
    /\ e_delays' = <<>>

\* Where control goes when the running execute returns or raises.
AfterExecute(raised) ==
    IF raised THEN "raised"
    ELSE IF c_pc = "probe_first" THEN "decide"
    ELSE "returned"

\* One pass of "for attempt in range(max_retries + 1)" of the wrapper: one call
\* of execute's body, then return, raise, or sleep and retry.
ExecuteAttempt ==
    /\ c_pc \in {"attempt", "probe_first", "refresh"}
    /\ UNCHANGED <<dvars, svars, uvars, ovars>>
    /\ UNCHANGED <<c_op, max_retries, base_delay, w_slept, w_probes>>
    /\ e_calls' = e_calls + 1
    /\ \E o \in CallOutcomes :
         IF o.fail
         THEN /\ UNCHANGED <<rate_limit, response, e_value>>
              /\ IF attempt = max_retries
                 THEN /\ e_exc' = Some(Exc("RequestException", <<attempt>>))
                      /\ c_pc' = AfterExecute(TRUE)
                      /\ UNCHANGED <<now, attempt, e_delays>>
                 ELSE /\ e_delays' = Append(e_delays, BackoffDelay(base_delay, attempt))
                      /\ now' = now + BackoffDelay(base_delay, attempt)
                      /\ attempt' = attempt + 1
                      /\ UNCHANGED <<c_pc, e_exc>>
         ELSE LET h == HandleResponse(o.resp, rate_limit)
              IN /\ response' = Some(o.resp)
                 /\ rate_limit' = h.rl
                 /\ e_exc' = h.exc
                 /\ e_value' = h.value
                 /\ c_pc' = AfterExecute(h.exc # None)
                 /\ UNCHANGED <<now, attempt, e_delays>>

\* wait_for_rate_limit, "if not self._rate_limit: self.check_rate_limit()".
WaitEntry ==
    /\ c_pc = "entry"
    /\ UNCHANGED <<dvars, svars, uvars, ovars>>
    /\ UNCHANGED <<c_op, rate_limit, now, max_retries, base_delay, response, e_value,
                   e_exc, w_slept>>
    /\ IF Falsy(rate_limit)
       THEN /\ c_pc' = "probe_first"
            /\ w_probes' = w_probes + 1
            /\ ExecuteEntry
       ELSE /\ c_pc' = "decide"
            /\ UNCHANGED <<w_probes, attempt, e_calls, e_delays>>

\* wait_for_rate_limit from "remaining = ..." on: return, or sleep and call
\* check_rate_limit again. self._rate_limit.get raises AttributeError on None.
WaitDecide ==
    /\ c_pc = "decide"
    /\ UNCHANGED <<dvars, svars, uvars, ovars>>
    /\ UNCHANGED <<c_op, rate_limit, max_retries, base_delay, response, e_value>>
    /\ IF rate_limit = None
       THEN /\ c_pc' = "raised"
            /\ e_exc' = Some(Exc("AttributeError", <<>>))
            /\ UNCHANGED <<now, w_slept, w_probes, attempt, e_calls, e_delays>>
       ELSE LET remaining == Remaining(rate_limit[1])
                reset_at == rate_limit[1].resetAt
                wait_time == IF reset_at = None THEN 0
                             ELSE CalculateWaitTime(reset_at[1], now)
            IN /\ UNCHANGED e_exc
               /\ IF remaining < MIN_RATE_LIMIT /\ reset_at # None /\ wait_time > 0
                  THEN /\ now' = now + wait_time
                       /\ w_slept' = w_slept + wait_time
                       /\ c_pc' = "refresh"
                       /\ w_probes' = w_probes + 1
                       /\ ExecuteEntry
                  ELSE /\ c_pc' = "returned"
                       /\ UNCHANGED <<now, w_slept, w_probes, attempt, e_calls, e_delays>>

\* Configurations of exponential_backoff: that of execute, the defaults, and
\* one with enough retries to reach max_delay.
BackoffConfigs ==
    {<<MAX_RETRIES, BASE_DELAY>>, <<DEFAULT_MAX_RETRIES, DEFAULT_BASE_DELAY>>,
     <<MaxRetriesArg, BASE_DELAY>>}

\* The client has a snapshot or none; execute (or another function wrapped by
\* exponential_backoff around the same body) or wait_for_rate_limit is called.
ClientCalled ==
    /\ c_op \in {"execute", "wait"}
    /\ c_pc = IF c_op = "execute" THEN "attempt" ELSE "entry"
    /\ rate_limit \in {None} \cup {Some(s) : s \in Snapshots}
    /\ now = Now0
    /\ \E cfg \in IF c_op = "execute" THEN BackoffConfigs
                   ELSE {<<MAX_RETRIES, BASE_DELAY>>} :
         /\ max_retries = cfg[1]
         /\ base_delay = cfg[2]
    /\ attempt = 0
    /\ e_calls = 0
    /\ e_delays = <<>>
    /\ response = None
    /\ e_value = None
    /\ e_exc = None
    /\ w_slept = 0
    /\ w_probes = 0

\* No client operation is modelled in detail.
IdleClient ==
    /\ c_op = "idle"
    /\ c_pc = "idle"
    /\ rate_limit = None
    /\ now = Now0
    /\ max_retries = MAX_RETRIES
    /\ base_delay = BASE_DELAY
    /\ attempt = 0
    /\ e_calls = 0
    /\ e_delays = <<>>
    /\ response = None
    /\ e_value = None
    /\ e_exc = None
    /\ w_slept = 0
    /\ w_probes = 0

\* ------------------------------------------------------- extract_repo_data
\* A key of a response dictionary: absent, present with null, or present with
\* a value.
Absent == <<>>
Null == <<<<>>>>
Val(x) == <<<<x>>>>
IsVal(f) == f # Absent /\ f # Null
ValueOf(f) == f[1][1]

\* dict.get(key, default); a Python value is None or Some(value).
DictGet(f, default) ==
    IF f = Absent THEN Some(default)
    ELSE IF f = Null THEN None
    ELSE Some(ValueOf(f))

\* Response values of the keys of SEARCH_REPOS_QUERY the model follows.
TextField(t) == {Absent, Null, Val(t)}
CountObjects ==
    {Absent, Null} \cup {Val([totalCount |-> c]) : c \in {Absent, Null, Val(5)}}
LangLists == UNION {[1..n -> {None, Some("Python")}] : n \in 0..MaxLangs}
LanguageObjects ==
    {Absent, Null}
    \cup {Val([nodes |-> ns]) : ns \in {Absent, Null} \cup {Val(l) : l \in LangLists}}
\* "... on User { location company bio email followers { totalCount } createdAt }"
UserOwners ==
    {[typename |-> Val("User"), company |-> c, bio |-> b, description |-> Absent,
      followers |-> f] :
        c \in TextField("acme"), b \in TextField("hi"), f \in CountObjects}
\* "... on Organization { location email description }"
OrgOwners ==
    {[typename |-> Val("Organization"), company |-> Absent, bio |-> Absent,
      description |-> d, followers |-> Absent] : d \in TextField("we")}
OwnerObjects == {Absent, Null} \cup {Val(o) : o \in UserOwners \cup OrgOwners}
RawNodes ==
    [description : TextField("d"), watchers : CountObjects,
     languages : LanguageObjects, owner : OwnerObjects]

\* "{}" as an owner.
EmptyOwner ==
    [typename |-> Absent, company |-> Absent, bio |-> Absent, description |-> Absent,
     followers |-> Absent]

\* "repo_node.get('owner', {}) or {}"
OwnerOf(node) == IF IsVal(node.owner) THEN ValueOf(node.owner) ELSE EmptyOwner

\* "owner.get('__typename', '')"
OwnerTypename(owner) == DictGet(owner.typename, "")

\* "x.get(key, {}).get('totalCount', 0) if x.get(key) else 0": a dictionary
\* without keys is falsy.
CountOf(f) ==
    IF IsVal(f) /\ ValueOf(f).totalCount # Absent
    THEN DictGet(ValueOf(f).totalCount, 0)
    ELSE Some(0)

\* "owner.get('company', '') if owner_typename == 'User' else ''"
OwnerCompany(owner) ==
    IF OwnerTypename(owner) = Some("User") THEN DictGet(owner.company, "") ELSE Some("")

\* The bio taken from owner['bio'] whatever the kind of the owner.
OwnerBioMixed(owner) == DictGet(owner.bio, "")

\* "owner.get('bio', '') if owner_typename == 'User' else owner.get('description', '')"
OwnerBio(owner) ==
    IF OwnerTypename(owner) = Some("User")
    THEN DictGet(owner.bio, "")
    ELSE DictGet(owner.description, "")

\* "[lang.get('name') for lang in ... if lang]"
RECURSIVE LanguageNames(_, _)
LanguageNames(ls, i) ==
    IF i > Len(ls) THEN <<>>
    ELSE IF ls[i] = None THEN LanguageNames(ls, i + 1)
    ELSE <<ls[i][1]>> \o LanguageNames(ls, i + 1)

\* The list "languages_nodes.get('nodes', [])" iterates over; None is not
\* iterable.
LanguageList(node) ==
    IF IsVal(node.languages) /\ ValueOf(node.languages).nodes # Absent
    THEN DictGet(ValueOf(node.languages).nodes, <<>>)
    ELSE Some(<<>>)

\* The dictionary extract_repo_data returns for a non-empty node (its callers
\* skip empty and null nodes), for the keys the model follows.
ExtractFields(node) ==
    LET owner == OwnerOf(node)
    IN [description |-> DictGet(node.description, ""),
        watchers |-> CountOf(node.watchers),
        languages |-> LanguageNames(LanguageList(node)[1], 1),
        owner_type |-> OwnerTypename(owner),
        owner_company |-> OwnerCompany(owner),
        owner_bio |-> OwnerBio(owner),
        owner_followers |-> CountOf(owner.followers)]

\* extract_repo_data runs on x_node.
ExtractCall ==
    /\ x_pc = "called"
    /\ UNCHANGED <<dvars, svars, uvars, cvars, mvars, nvars>>
    /\ UNCHANGED x_node
    /\ IF LanguageList(x_node) = None
       THEN /\ x_pc' = "raised"
            /\ x_exc' = Some(Exc("TypeError", <<"'NoneType' object is not iterable">>))
            /\ UNCHANGED x_out
       ELSE /\ x_pc' = "returned"
            /\ x_out' = Some(ExtractFields(x_node))
            /\ UNCHANGED x_exc

\* extract_repo_data has been called with a node of a response.
ExtractCalled ==
    /\ x_pc = "called"
    /\ x_node \in RawNodes
    /\ x_out = None
    /\ x_exc = None

\* extract_repo_data is not running.
IdleExtract ==
    /\ x_pc = "idle"
    /\ x_node = [description |-> Absent, watchers |-> Absent, languages |-> Absent,
                 owner |-> Absent]
    /\ x_out = None
    /\ x_exc = None

\* ------------------------------------------------- scripts/fetch_repos.py
\* save_to_csv / save_to_parquet is called while the buffer holds buf records.
SaveSink(log, buf) == Append(log, buf)

\* How the fetch call of a mode can end, and with how many records in
\* fetcher._repos: a return, a KeyboardInterrupt, or another exception.  In
\* repo mode fetch_repo_details returns a record or None.
FetchOutcomes(mode) ==
    IF mode = "repo"
    THEN {<<"ok", 1>>, <<"notfound", 0>>, <<"interrupt", 0>>, <<"exception", 0>>}
    ELSE {"ok", "interrupt", "exception"} \X (0..MaxCliRepos)

\* main up to the try block: the token and mode tests.
MainStart ==
    /\ m_pc = "start"
    /\ UNCHANGED <<dvars, svars, uvars, cvars, xvars, nvars>>
    /\ UNCHANGED <<m_token, m_mode, m_csv, m_cause, m_buffer, m_saves>>
    /\ IF ~m_token
       THEN m_pc' = "exited" /\ m_exit' = Some(1)
       ELSE IF m_mode = "none"
       THEN m_pc' = "exited" /\ m_exit' = Some(1)
       ELSE m_pc' = "fetch" /\ UNCHANGED m_exit

\* The fetch call of the chosen mode ends.
MainFetch ==
    /\ m_pc = "fetch"
    /\ UNCHANGED <<dvars, svars, uvars, cvars, xvars, nvars>>
    /\ UNCHANGED <<m_token, m_mode, m_csv, m_saves>>
    /\ \E o \in FetchOutcomes(m_mode) :
         /\ m_cause' = o[1]
         /\ m_buffer' = o[2]
         /\ IF o[1] = "notfound"
            THEN m_pc' = "exited" /\ m_exit' = Some(1)
            ELSE /\ m_pc' = (IF o[1] = "ok" THEN "save"
                             ELSE IF o[1] = "interrupt" THEN "interrupted"
                             ELSE "failed")
                 /\ UNCHANGED m_exit

\* "# Save output" at the end of the try block; main then returns.
MainSave ==
    /\ m_pc = "save"
    /\ UNCHANGED <<dvars, svars, uvars, cvars, xvars, nvars>>
    /\ UNCHANGED <<m_token, m_mode, m_csv, m_buffer>>
    /\ m_saves' = SaveSink(m_saves, m_buffer)
    /\ \E o \in {"ok", "interrupt", "exception"} :
         IF o = "ok"
         THEN m_pc' = "exited" /\ m_exit' = Some(0) /\ UNCHANGED m_cause
         ELSE /\ m_pc' = (IF o = "interrupt" THEN "interrupted" ELSE "failed")
              /\ m_cause' = o
              /\ UNCHANGED m_exit

\* "except KeyboardInterrupt": save, then sys.exit(0).
MainInterrupted ==
    /\ m_pc = "interrupted"
    /\ UNCHANGED <<dvars, svars, uvars, cvars, xvars, nvars>>
    /\ UNCHANGED <<m_token, m_mode, m_csv, m_cause, m_buffer>>
    /\ m_saves' = SaveSink(m_saves, m_buffer)
    /\ m_pc' = "exited"
    /\ m_exit' = Some(0)

\* "except Exception": save if fetcher._repos is not empty, then sys.exit(1).
MainFailed ==
    /\ m_pc = "failed"
    /\ UNCHANGED <<dvars, svars, uvars, cvars, xvars, nvars>>
    /\ UNCHANGED <<m_token, m_mode, m_csv, m_cause, m_buffer>>
    /\ m_saves' = IF m_buffer > 0 THEN SaveSink(m_saves, m_buffer) ELSE m_saves
    /\ m_pc' = "exited"
    /\ m_exit' = Some(1)

\* main has parsed its arguments.
MainCalled ==
    /\ m_pc = "start"
    /\ m_token \in BOOLEAN
    /\ m_mode \in {"none", "repo", "query", "location"}
    /\ m_csv \in BOOLEAN
    /\ m_cause = ""
    /\ m_buffer = 0
    /\ m_saves = <<>>
    /\ m_exit = None

\* main is not running.
IdleMain ==
    /\ m_pc = "idle"
    /\ m_token = FALSE
    /\ m_mode = "none"
    /\ m_csv = FALSE
    /\ m_cause = ""
    /\ m_buffer = 0
    /\ m_saves = <<>>
    /\ m_exit = None

\* ------------------------------------------------- build_search_query
\* Text is a sequence of characters.
StarsNeedle == <<"s", "t", "a", "r", "s", ":">>
\* str(n) of an integer.
RECURSIVE Decimal(_)
Decimal(n) ==
    IF n < 0 THEN <<"-">> \o Decimal(0 - n)
    ELSE IF n < 10 THEN <<ToString(n)>>
    ELSE Decimal(n \div 10) \o <<ToString(n % 10)>>
\* f"stars:>={min_stars}"
StarsFilter(n) == StarsNeedle \o <<">", "=">> \o Decimal(n)
\* f"language:{language}"
LanguageFilter(lang) == <<"l", "a", "n", "g", "u", "a", "g", "e", ":">> \o lang
SortStars == <<"s", "o", "r", "t", ":">> \o <<"s", "t", "a", "r", "s">>

\* Truth value of an optional text: None and "" are false.
TruthyText(opt) == opt # None /\ opt # Some(<<>>)

\* build_search_query that appends the stars filter to every custom query.
BuildSearchQueryAlwaysAppend(lang, stars, custom_query) ==
    IF TruthyText(custom_query)
    THEN custom_query[1] \o <<" ">> \o StarsFilter(stars)
    ELSE JoinParts((IF TruthyText(lang) THEN <<LanguageFilter(lang[1])>> ELSE <<>>)
                   \o <<StarsFilter(stars), SortStars>>)

\* build_search_query(lang, stars, custom_query)
BuildSearchQuery(lang, stars, custom_query) ==
    IF TruthyText(custom_query)
    THEN IF ~Contains(custom_query[1], StarsNeedle)
         THEN custom_query[1] \o <<" ">> \o StarsFilter(stars)
         ELSE custom_query[1]
    ELSE JoinParts((IF TruthyText(lang) THEN <<LanguageFilter(lang[1])>> ELSE <<>>)
                   \o <<StarsFilter(stars), SortStars>>)

\* Pieces of text custom queries are made of, and the texts of up to
\* MaxPieces pieces.
QueryPieces == {<<"a">>, <<" ">>, <<"s", "t", "a", "r">>, <<"s", ":">>, StarsNeedle}
RECURSIVE Flatten(_)
Flatten(ps) == IF ps = <<>> THEN <<>> ELSE ps[1] \o Flatten(Tail(ps))
CustomQueries == {Flatten(ps) : ps \in UNION {[1..n -> QueryPieces] : n \in 0..MaxPieces}}
BuildLanguages == {None, Some(<<>>), Some(<<"p", "y">>)}
BuildMinStars == {0, 5, 12}

\* build_search_query runs on its arguments.
BuildCall ==
    /\ b_pc = "called"
    /\ b_pc' = "once"
    /\ b_out' = Some(BuildSearchQuery(b_language, b_min_stars, b_custom))
    /\ UNCHANGED <<b_language, b_min_stars, b_custom, b_again>>
    /\ UNCHANGED <<dvars, svars, uvars, cvars, xvars, mvars, rvars>>

\* build_search_query runs again, with the query it returned as custom_query.
BuildAgain ==
    /\ b_pc = "once"
    /\ b_pc' = "twice"
    /\ b_again' = Some(BuildSearchQuery(b_language, b_min_stars, b_out))
    /\ UNCHANGED <<b_language, b_min_stars, b_custom, b_out>>
    /\ UNCHANGED <<dvars, svars, uvars, cvars, xvars, mvars, rvars>>

\* build_search_query has been called.
BuildCalled ==
    /\ b_pc = "called"
    /\ b_language \in BuildLanguages
    /\ b_min_stars \in BuildMinStars
    /\ b_custom \in {None} \cup {Some(q) : q \in CustomQueries}
    /\ b_out = None
    /\ b_again = None

\* build_search_query is not running.
IdleBuild ==
    /\ b_pc = "idle"
    /\ b_language = None
    /\ b_min_stars = 0
    /\ b_custom = None
    /\ b_out = None
    /\ b_again = None

\* ------------------------------------------------- fetch_repo_details
\* str.split(sep) for a separator of one character.
RECURSIVE SplitOn(_, _)
SplitOn(str, sep) ==
    IF \A i \in 1..Len(str) : str[i] # sep
    THEN <<str>>
    ELSE LET i == CHOOSE k \in 1..Len(str) :
                      str[k] = sep /\ \A j \in 1..(k - 1) : str[j] # sep
         IN <<SubSeq(str, 1, i - 1)>> \o SplitOn(SubSeq(str, i + 1, Len(str)), sep)

\* The length test with fewer than two parts as the only rejected case.
DetailsMalformedFewer(parts) == Len(parts) < 2
\* if len(parts) != 2
DetailsMalformed(parts) == Len(parts) # 2

\* Identifiers: texts of up to MaxNwoLen characters.
NwoChars == {"a", "/"}
NwoTexts == UNION {[1..n -> NwoChars] : n \in 0..MaxNwoLen}

\* How the body of the try block can end: execute raises; the data have no
\* repository (absent, null or empty); extract_repo_data runs on the node.
LookupOutcomes == {"failed", "missing"} \cup {"node"}

\* parts = nwo.split('/') and the length test.
DetailsSplit ==
    /\ r_pc = "called"
    /\ IF DetailsMalformed(SplitOn(r_nwo, "/"))
       THEN /\ r_pc' = "raised"
            /\ r_exc' = Some(Exc("ValueError", <<"Invalid nwo format">>))
       ELSE /\ r_pc' = "wait"
            /\ UNCHANGED r_exc
    /\ UNCHANGED <<r_nwo, r_sent, r_waits, r_cause, r_out>>
    /\ UNCHANGED <<dvars, svars, uvars, cvars, xvars, mvars, bvars>>

\* self.client.wait_for_rate_limit(self.MIN_RATE_LIMIT), outside the try
\* block: it returns, or raises what its request raised.
DetailsWait ==
    /\ r_pc = "wait"
    /\ r_waits' = r_waits + 1
    /\ \E o \in {"ok", "raise"} :
         IF o = "ok"
         THEN /\ r_pc' = "lookup"
              /\ UNCHANGED r_exc
         ELSE /\ r_pc' = "raised"
              /\ r_exc' = Some(Exc("RequestException", <<"rate limit check">>))
    /\ UNCHANGED <<r_nwo, r_sent, r_cause, r_out>>
    /\ UNCHANGED <<dvars, svars, uvars, cvars, xvars, mvars, bvars>>

\* The try block: the lookup request, then extract_repo_data on the node.
DetailsLookup ==
    /\ r_pc = "lookup"
    /\ r_pc' = "returned"
    /\ r_sent' = Some(SplitOn(r_nwo, "/"))
    /\ \E o \in LookupOutcomes :
         IF o = "node"
         THEN \E node \in RawNodes :
                IF LanguageList(node) = None
                THEN /\ r_cause' = "extract_failed"
                     /\ r_out' = None
                ELSE /\ r_cause' = "found"
                     /\ r_out' = Some(ExtractFields(node))
         ELSE /\ r_cause' = o
              /\ r_out' = None
    /\ UNCHANGED <<r_nwo, r_waits, r_exc>>
    /\ UNCHANGED <<dvars, svars, uvars, cvars, xvars, mvars, bvars>>

\* Buffers the fetcher can hold when fetch_repo_details is called.
DetailsBuffers == {<<>>, EarlierFile}

\* fetch_repo_details has been called.
DetailsCalled ==
    /\ r_pc = "called"
    /\ r_nwo \in NwoTexts
    /\ r_sent = None
    /\ r_waits = 0
    /\ r_cause = ""
    /\ r_out = None
    /\ r_exc = None

\* fetch_repo_details is not running.
IdleDetails ==
    /\ r_pc = "idle"
    /\ r_nwo = <<>>
    /\ r_sent = None
    /\ r_waits = 0
    /\ r_cause = ""
    /\ r_out = None
    /\ r_exc = None

InitArbitrary ==
    /\ server = "arbitrary"
    /\ pop = [d \in Days |-> 0]
    /\ InitDiscovery
    /\ IdleSearch
    /\ IdleAccounts
    /\ IdleClient
    /\ IdleExtract
    /\ IdleMain
    /\ IdleBuild
    /\ IdleDetails

InitSearch ==
    /\ IdleDiscovery
    /\ SearchCalled
    /\ IdleAccounts
    /\ IdleClient
    /\ IdleExtract
    /\ IdleMain
    /\ IdleBuild
    /\ IdleDetails

InitSearchOverFile ==
    /\ IdleDiscovery
    /\ SearchCalledOverFile
    /\ IdleAccounts
    /\ IdleClient
    /\ IdleExtract
    /\ IdleMain
    /\ IdleBuild
    /\ IdleDetails

\* search_repositories called for MaxBulkRepos records with an output path,
\* against a server with a long result list and no failures.
InitBulk ==
    /\ server = "bulk"
    /\ pop = [d \in Days |-> 0]
    /\ max_users = None
    /\ include_orgs = FALSE
    /\ fpc = "idle"
    /\ all_users = <<>>
    /\ kind = "user"
    /\ d_max = None
    /\ users = <<>>
    /\ ranges = <<>>
    /\ dpc = "loop"
    /\ cur = <<START_DATE, LastDay>>
    /\ count = None
    /\ max_count = 0
    /\ p_users = <<>>
    /\ cursor = None
    /\ served = 0
    /\ pages = 0
    /\ p_first = 0
    /\ p_error = FALSE
    /\ max_repos = MaxBulkRepos
    /\ output_path = TRUE
    /\ location_filter \in {None, Some(<<"p", "E">>)}
    /\ s_pc = "loop"
    /\ repos = <<>>
    /\ s_cursor = None
    /\ total_matched = 0
    /\ total_fetched = 0
    /\ nodes = <<>>
    /\ page_info = [hasNextPage |-> FALSE, endCursor |-> None]
    /\ s_after = None
    /\ requests = 0
    /\ persisted = None
    /\ s_served = 0
    /\ s_error = FALSE
    /\ IdleAccounts
    /\ IdleClient
    /\ IdleExtract
    /\ IdleMain
    /\ IdleBuild
    /\ IdleDetails

InitConsistent ==
    /\ server = "consistent"
    /\ pop \in [Days -> PopSizes]
    /\ InitDiscovery
    /\ max_users = None
    /\ IdleSearch
    /\ IdleAccounts
    /\ IdleClient
    /\ IdleExtract
    /\ IdleMain
    /\ IdleBuild
    /\ IdleDetails

NextDiscovery ==
    DateSplitIterate \/ PaginatedPage \/ MergeNew \/ DateSplitReturn

NextSearch == SearchPage \/ SearchReturn

NextAccounts == AccountWait \/ AccountPage \/ AccountsReturn

NextClient == ExecuteAttempt \/ WaitEntry \/ WaitDecide

\* One operation of the client is called.
InitClient ==
    /\ IdleDiscovery
    /\ IdleSearch
    /\ IdleAccounts
    /\ ClientCalled
    /\ IdleExtract
    /\ IdleMain
    /\ IdleBuild
    /\ IdleDetails

\* fetch_repos_for_users called with a list of accounts, with or without an
\* output path; self._repos is reset at entry.
InitAccounts ==
    /\ IdleDiscovery
    /\ max_repos = 0
    /\ output_path \in BOOLEAN
    /\ location_filter = None
    /\ s_pc = "idle"
    /\ repos = <<>>
    /\ s_cursor = None
    /\ total_matched = 0
    /\ total_fetched = 0
    /\ nodes = <<>>
    /\ page_info = [hasNextPage |-> FALSE, endCursor |-> None]
    /\ s_after = None
    /\ requests = 0
    /\ persisted = None
    /\ s_served = 0
    /\ s_error = FALSE
    /\ AccountsCalled
    /\ IdleClient
    /\ IdleExtract
    /\ IdleMain
    /\ IdleBuild
    /\ IdleDetails

\* State of the search frame and of the file while the accounts path runs.
AccountsSearchFrame ==
    /\ max_repos = 0
    /\ location_filter = None
    /\ s_pc = "idle"
    /\ repos = <<>>
    /\ s_cursor = None
    /\ total_matched = 0
    /\ total_fetched = 0
    /\ nodes = <<>>
    /\ page_info = [hasNextPage |-> FALSE, endCursor |-> None]
    /\ s_after = None
    /\ requests = 0
    /\ persisted = None
    /\ s_served = 0
    /\ s_error = FALSE

\* fetch_by_location_two_step after discovery, with or without an output path.
InitTwoStep ==
    /\ TwoStepDiscovered
    /\ output_path \in BOOLEAN
    /\ AccountsSearchFrame
    /\ IdleClient
    /\ IdleExtract
    /\ IdleMain
    /\ IdleBuild
    /\ IdleDetails

\* fetch_repos_for_users called with an output path for MaxAccounts accounts
\* that own many repositories, against a server without failures.
InitAccountsBulk ==
    /\ server = "bulk"
    /\ pop = [d \in Days |-> 0]
    /\ max_users = None
    /\ include_orgs = FALSE
    /\ fpc = "idle"
    /\ all_users = <<>>
    /\ kind = "user"
    /\ d_max = None
    /\ users = <<>>
    /\ ranges = <<>>
    /\ dpc = "loop"
    /\ cur = <<START_DATE, LastDay>>
    /\ count = None
    /\ max_count = 0
    /\ p_users = <<>>
    /\ cursor = None
    /\ served = 0
    /\ pages = 0
    /\ p_first = 0
    /\ p_error = FALSE
    /\ output_path = TRUE
    /\ AccountsSearchFrame
    /\ usernames = [i \in 1..MaxAccounts |-> i]
    /\ u_pc = "loop"
    /\ u_idx = 1
    /\ user_repos = <<>>
    /\ u_cursor = None
    /\ u_requests = 0
    /\ u_error = FALSE
    /\ checked = FALSE
    /\ min_stars \in MinStarsArgs
    /\ include_forks = FALSE
    /\ extra_filter = ""
    /\ u_query = <<>>
    /\ u_sent = None
    /\ u_nodes = <<>>
    /\ u_page_info = [hasNextPage |-> FALSE, endCursor |-> None]
    /\ t_pc = "idle"
    /\ IdleClient
    /\ IdleExtract
    /\ IdleMain
    /\ IdleBuild
    /\ IdleDetails

NextTwoStep == TwoStepCall \/ NextAccounts

\* _paginated_user_search called on its own.
InitPaginated ==
    /\ PaginatedCalled
    /\ IdleSearch
    /\ IdleAccounts
    /\ IdleClient
    /\ IdleExtract
    /\ IdleMain
    /\ IdleBuild
    /\ IdleDetails

NextPaginated == PaginatedPage \/ PaginatedEmpty

\* extract_repo_data called on a node.
InitExtract ==
    /\ IdleDiscovery
    /\ IdleSearch
    /\ IdleAccounts
    /\ IdleClient
    /\ ExtractCalled
    /\ IdleMain
    /\ IdleBuild
    /\ IdleDetails

\* The command line script is started.
InitMain ==
    /\ IdleDiscovery
    /\ IdleSearch
    /\ IdleAccounts
    /\ IdleClient
    /\ IdleExtract
    /\ MainCalled
    /\ IdleBuild
    /\ IdleDetails

NextMain == MainStart \/ MainFetch \/ MainSave \/ MainInterrupted \/ MainFailed

\* The discovery driver against a server that answers anything.
Spec == InitArbitrary /\ [][NextDiscovery]_vars
\* The discovery driver against a server that answers consistently.
SpecConsistent == InitConsistent /\ [][NextDiscovery]_vars
\* search_repositories against a server that answers anything.
SpecSearch == InitSearch /\ [][NextSearch]_vars
\* search_repositories writing to a path where a file exists already.
SpecSearchOverFile == InitSearchOverFile /\ [][NextSearch]_vars
\* search_repositories over a long result list served in full pages.
SpecBulk == InitBulk /\ [][NextSearch]_vars
\* fetch_repos_for_users against a server that answers anything.
SpecAccounts == InitAccounts /\ [][NextAccounts]_vars
\* fetch_by_location_two_step from the return of discovery on.
SpecTwoStep == InitTwoStep /\ [][NextTwoStep]_vars
\* fetch_repos_for_users over accounts that own many repositories.
SpecAccountsBulk == InitAccountsBulk /\ [][NextAccounts]_vars
\* _paginated_user_search for any max_count, against a server that answers
\* anything.
SpecPaginated == InitPaginated /\ [][NextPaginated]_vars
\* extract_repo_data on the nodes a response can hold.
SpecExtract == InitExtract /\ [][ExtractCall]_vars
\* main of scripts/fetch_repos.py.
SpecMain == InitMain /\ [][NextMain]_vars

\* build_search_query is called on its own.
InitBuild ==
    /\ IdleDiscovery
    /\ IdleSearch
    /\ IdleAccounts
    /\ IdleClient
    /\ IdleExtract
    /\ IdleMain
    /\ BuildCalled
    /\ IdleDetails

NextBuild == BuildCall \/ BuildAgain

SpecBuild == InitBuild /\ [][NextBuild]_vars

\* The fetcher when fetch_repo_details is called: no search is running and
\* self._repos holds what earlier operations left.
DetailsFetcher ==
    /\ max_repos = 0
    /\ output_path = FALSE
    /\ location_filter = None
    /\ s_pc = "idle"
    /\ repos \in DetailsBuffers
    /\ s_cursor = None
    /\ total_matched = 0
    /\ total_fetched = 0
    /\ nodes = <<>>
    /\ page_info = [hasNextPage |-> FALSE, endCursor |-> None]
    /\ s_after = None
    /\ requests = 0
    /\ persisted = None
    /\ s_served = 0
    /\ s_error = FALSE

\* fetch_repo_details is called on a fetcher.
InitDetails ==
    /\ IdleDiscovery
    /\ DetailsFetcher
    /\ IdleAccounts
    /\ IdleClient
    /\ IdleExtract
    /\ IdleMain
    /\ IdleBuild
    /\ DetailsCalled

NextDetails == DetailsSplit \/ DetailsWait \/ DetailsLookup

SpecDetails == InitDetails /\ [][NextDetails]_vars
\* execute and wait_for_rate_limit against a server that answers anything.
SpecClient == InitClient /\ [][NextClient]_vars

\* Under weak fairness every request returns and the driver takes its next step.
FairSpec == Spec /\ WF_vars(NextDiscovery)

\* ------------------------------------------------------ discovery: claims
Active == fpc \in {"users", "orgs"}
\* The while loop of _fetch_users_with_date_split has ended: users is returned.
LoopExit == Active /\ dpc = "loop" /\ ~LoopGuard
\* A step of DateSplitIterate whose rate-limit check returned, and one that
\* does not just drop the head.
IterateStep == Active /\ dpc = "loop" /\ LoopGuard /\ ranges' # ranges /\ fpc' = fpc
SplitStep == IterateStep /\ ranges' # Tail(ranges)
\* A step that issues a USER_SEARCH_QUERY page request.
PageRequestStep == pages' = pages + 1
MergeStep == dpc \in {"merge_le1000", "merge_gt1000"} /\ dpc' = "loop"
DaysOf(r) == r[1]..r[2]
Span(r) == r[2] - r[1]
IsPrefix(a, b) == Len(a) <= Len(b) /\ \A i \in 1..Len(a) : a[i] = b[i]

\* No range of at most two calendar days (end - start <= 1) holds more than
\* 1000 matching accounts.
NoCrowdedShortRange(k) ==
    \A s \in Days : \A e \in Days :
        (s <= e /\ e - s <= 1) => Cardinality(Matching(k, s, e)) <= SPLIT_LIMIT

\* C1: with max_users unset, no failing request, a consistent server and no
\* range of end - start <= 1 day above 1000 accounts, the list returned by
\* _fetch_users_with_date_split holds every account matching the base query
\* that was created in [2008-01-01, today].
C1_DiscoveryComplete ==
    (LoopExit /\ server = "consistent" /\ d_max = None /\ NoCrowdedShortRange(kind))
        => Matching(kind, START_DATE, LastDay) \subseteq Range(users)

\* A complete run that had to split: more than 1000 accounts were found.
C1_Witness ==
    /\ LoopExit /\ server = "consistent" /\ d_max = None
    /\ NoCrowdedShortRange(kind)
    /\ Len(users) > SPLIT_LIMIT
    /\ Matching(kind, START_DATE, LastDay) \subseteq Range(users)

\* C2: a split of [s, e] pushes [s, m] and [m + 1, e] with s <= m < e, which
\* hold every day of [s, e] exactly once; a single-day range is never split.
C2_SplitExact ==
    [][ /\ SplitStep =>
            LET s == Head(ranges)[1]
                e == Head(ranges)[2]
            IN /\ Len(ranges') = Len(ranges) + 1
               /\ ranges'[1][1] = s
               /\ ranges'[2][2] = e
               /\ ranges'[2][1] = ranges'[1][2] + 1
               /\ s <= ranges'[1][2]
               /\ ranges'[1][2] < e
               /\ DaysOf(ranges'[1]) \cup DaysOf(ranges'[2]) = s..e
               /\ DaysOf(ranges'[1]) \cap DaysOf(ranges'[2]) = {}
        /\ (IterateStep /\ Span(Head(ranges)) = 0) => ranges' = Tail(ranges)
      ]_vars

\* The first split of [2008-01-01, today] has been made.
C2_Witness ==
    /\ Active /\ dpc = "loop" /\ Len(ranges) = 2
    /\ ranges[1][1] = START_DATE /\ ranges[2][2] = LastDay
    /\ ranges[2][1] = ranges[1][2] + 1

\* C3: for every max_users >= 0, whatever the server returns,
\* _fetch_users_with_date_split returns at most max_users logins and
\* fetch_users_by_location returns at most max_users logins in total.
C3_DiscoveryCapped ==
    /\ (LoopExit /\ d_max # None /\ (IF d_max = None THEN FALSE ELSE d_max[1] >= 0))
           => Len(users) <= d_max[1]
    /\ (fpc = "returned" /\ max_users # None) => Len(all_users) <= max_users[1]

\* C4: at every step the result list of _fetch_users_with_date_split holds no
\* login twice.
C4_NoDuplicateLogin == NoDup(users)

\* The server has returned, in a later search, a login that is already in the
\* result list, and one login twice in that search.
C4_Witness ==
    /\ dpc \in {"merge_le1000", "merge_gt1000"}
    /\ users # <<>>
    /\ Range(p_users) \cap Range(users) # {}
    /\ ~NoDup(p_users)

\* C5: the discovery loop terminates with its queue empty or max_users logins
\* collected, whatever counts the server reports.
C5_LoopTerminates == <>(fpc = "returned" \/ (Active /\ ~LoopGuard))

\* C6: a range with a count above 1000 that spans more than one day gets no
\* login-page request; its halves go to the front of the queue, earlier half
\* first, ahead of every range already waiting, and the head is what is popped.
C6_SplitDepthFirst ==
    [][ /\ SplitStep =>
            LET s == Head(ranges)[1]
                e == Head(ranges)[2]
            IN /\ count' # None /\ count'[1] > SPLIT_LIMIT /\ e - s > 1
               /\ \E m \in s..e :
                    ranges' = <<<<s, m>>, <<m + 1, e>>>> \o Tail(ranges)
               /\ dpc' = "loop" /\ pages' = pages /\ users' = users
        /\ (IterateStep /\ count' # None /\ Span(Head(ranges)) > 1
              /\ (IF count' = None THEN FALSE ELSE count'[1] > SPLIT_LIMIT))
            => SplitStep
        /\ PageRequestStep =>
            ~(Span(cur) > 1 /\ (IF count = None THEN FALSE ELSE count[1] > SPLIT_LIMIT))
        /\ IterateStep =>
            /\ cur' = Head(ranges)
            /\ \/ ranges' = Tail(ranges)
               \/ Tail(Tail(ranges')) = Tail(ranges)
      ]_vars

\* A half of a half is being resolved while a later range waits behind it.
C6_Witness ==
    /\ Active /\ dpc = "loop" /\ Len(ranges) >= 3
    /\ ranges[1][1] = START_DATE
    /\ (IF count = None THEN FALSE ELSE count[1] > SPLIT_LIMIT)

\* C7: a range with a count above 1000 that spans at most 1 day is neither
\* split nor re-queued: at most its first 1000 logins are requested, the new
\* ones are added, and the driver goes on with the next range.
C7_UnsplittableRange ==
    [][ /\ (IterateStep /\ Span(Head(ranges)) <= 1
              /\ (IF count' = None THEN FALSE ELSE count'[1] > SPLIT_LIMIT))
            => /\ ranges' = Tail(ranges)
               /\ dpc' = "paginate_gt1000"
               /\ max_count' = FIRST_1000
               /\ p_users' = <<>>
        /\ (dpc = "paginate_gt1000" /\ PageRequestStep)
            => /\ Len(p_users') <= FIRST_1000
               /\ ranges' = ranges
               /\ cur \notin Range(ranges)
        /\ (dpc = "merge_gt1000" /\ MergeStep)
            => /\ IsPrefix(users, users')
               /\ Range(users') = Range(users) \cup Range(p_users)
               /\ NoDup(users')
               /\ ranges' = ranges
      ]_vars

\* The first 1000 logins of an unsplittable range have been added.
C7_Witness ==
    /\ Active /\ dpc = "loop" /\ Span(cur) <= 1
    /\ (IF count = None THEN FALSE ELSE count[1] > SPLIT_LIMIT)
    /\ users # <<>>
    /\ cur \notin Range(ranges)

\* ----------------------------------------------- search_repositories: claims
\* A step that issues a page request, and one whose request returned a page
\* with at least one node.
\* The queue is a chain of well-formed ranges, each starting the day after
\* the one before it ends, and it ends today.
QueueContiguous ==
    \A i \in 1..Len(ranges) :
        /\ START_DATE <= ranges[i][1]
        /\ ranges[i][1] <= ranges[i][2]
        /\ ranges[i][2] <= LastDay
        /\ (i < Len(ranges) => ranges[i + 1][1] = ranges[i][2] + 1)
        /\ (i = Len(ranges) => ranges[i][2] = LastDay)
\* The first day no popped range has dealt with: the days before it are the
\* days of the ranges popped and resolved so far.
Frontier == IF ranges = <<>> THEN LastDay + 1 ELSE ranges[1][1]

\* C29: the queue of _fetch_users_with_date_split starts as
\* [2008-01-01, today]; it always holds well-formed, pairwise disjoint ranges
\* in increasing order that cover exactly the days from the frontier to
\* today; every pop takes the range that starts at the frontier and either
\* replaces it by two halves (the frontier stays) or resolves it (the frontier
\* moves to the day after its end), so ranges are resolved in chronological
\* order; a range being paginated ends the day before the frontier.
C29_QueueInvariant ==
    /\ ranges = <<<<START_DATE, LastDay>>>>
    /\ [](Active => QueueContiguous)
    /\ []((Active /\ dpc # "loop") => cur[2] + 1 = Frontier)
    /\ [][(fpc' # fpc /\ fpc' \in {"users", "orgs"}) =>
            ranges' = <<<<START_DATE, LastDay>>>>]_vars
    /\ [][IterateStep =>
            /\ cur' = Head(ranges)
            /\ cur'[1] = Frontier
            /\ IF SplitStep
               THEN /\ Frontier' = Frontier
                    /\ Len(ranges') = Len(ranges) + 1
               ELSE /\ Frontier' = cur'[2] + 1
                    /\ ranges' = Tail(ranges)]_vars
    /\ [][(Active /\ ~IterateStep /\ fpc' = fpc) => ranges' = ranges]_vars

\* After two splits the first quarter has been resolved: two ranges wait and
\* the frontier has left 2008-01-01.
C29_Witness ==
    /\ Active /\ dpc = "loop"
    /\ Len(ranges) >= 2
    /\ Frontier > START_DATE
    /\ QueueContiguous

\* A pass of the loop whose count request failed.
CountFailureStep == IterateStep /\ count' = None

\* C30: a range whose count request fails is dropped: it is not queued again,
\* not split and not paginated, the logins collected so far are unchanged,
\* and the driver is back at the top of its loop with the rest of the queue.
C30_CountFailureDropsRange ==
    [][CountFailureStep =>
        /\ cur' = Head(ranges)
        /\ ranges' = Tail(ranges)
        /\ users' = users
        /\ all_users' = all_users
        /\ pages' = pages
        /\ dpc' = "loop"]_vars

\* The count of the first half failed: it was dropped with no login collected
\* and the second half is next.
C30_Witness ==
    /\ Active /\ dpc = "loop"
    /\ count = None
    /\ cur[1] = START_DATE
    /\ cur[2] < LastDay
    /\ users = <<>>
    /\ ranges # <<>>
    /\ ranges[1][1] = cur[2] + 1
    /\ LoopGuard

\* _paginated_user_search is running or has returned to its caller.
InPaginated == dpc \in {"paginate_le1000", "paginate_gt1000"}
PaginatedReturned == dpc \in {"merge_le1000", "merge_gt1000"}

\* C31: _paginated_user_search never holds more than max_count logins (none
\* for max_count <= 0); every request asks for
\* min(USER_PAGE, max_count - collected) entries, which is between 1 and
\* USER_PAGE; no request is issued when max_count <= 0; a failed page request
\* ends the search by a return of the logins collected before it.
C31_PaginatedSearch ==
    /\ [](Len(p_users) <= (IF max_count > 0 THEN max_count ELSE 0))
    /\ [](max_count <= 0 => pages = 0)
    /\ [][(InPaginated /\ max_count <= 0) =>
            (PaginatedReturned' /\ p_users' = <<>> /\ pages' = 0)]_vars
    /\ [][PageRequestStep =>
            /\ p_first' = (IF max_count - Len(p_users) < USER_PAGE
                           THEN max_count - Len(p_users) ELSE USER_PAGE)
            /\ 1 <= p_first'
            /\ p_first' <= USER_PAGE]_vars
    /\ [][(PageRequestStep /\ p_error') =>
            /\ PaginatedReturned'
            /\ p_users' = p_users
            /\ fpc' = fpc]_vars

\* The second page request failed: the search has returned the login of the
\* first page.
C31_Witness ==
    /\ PaginatedReturned
    /\ p_error
    /\ pages = 2
    /\ max_count = MaxCountArg
    /\ Len(p_users) = 1
    /\ p_first = max_count - 1

SearchRequestStep == requests' = requests + 1
SearchPageStep == SearchRequestStep /\ ~s_error' /\ nodes' # <<>>

\* The owner location of a record contains the text f, ignoring case.
LocationContains(rec, f) ==
    /\ rec.owner_location # None
    /\ \E i \in 0..(Len(rec.owner_location[1]) - Len(f)) :
         \A j \in 1..Len(f) : LowerChar(rec.owner_location[1][i + j]) = LowerChar(f[j])

\* The records of a page that the filter keeps, in node order.
RECURSIVE KeptOf(_, _)
KeptOf(ns, i) ==
    IF i > Len(ns) THEN <<>>
    ELSE LET rest == KeptOf(ns, i + 1)
             rec == ExtractRepoData(ns[i])
         IN IF ns[i].null THEN rest
            ELSE IF HasFilter(location_filter) /\ ~LocationContains(rec, location_filter[1])
                 THEN rest
                 ELSE <<rec>> \o rest
Take(sq, n) == SubSeq(sq, 1, Min(n, Len(sq)))
NonNull(ns) == Cardinality({i \in 1..Len(ns) : ~ns[i].null})

\* C8: the buffer never holds more than max_repos records; once the matched
\* count has reached max_repos no record is appended and no page request is
\* issued, also when the page fetched last reports hasNextPage = true.
C8_MaxReposCap ==
    /\ [](Len(repos) <= max_repos)
    /\ [][total_matched >= max_repos =>
            /\ repos' = repos
            /\ requests' = requests
            /\ s_pc' = "returned"]_vars

\* C8 witness: the search has returned max_repos records after a page that
\* reports a next page and holds a further record, which was ignored.
C8_Witness ==
    /\ s_pc = "returned"
    /\ max_repos >= 1
    /\ Len(repos) = max_repos
    /\ page_info.hasNextPage
    /\ Len(KeptOf(nodes, 1)) >= 2
    /\ requests = 1

\* C9: the first page request carries no cursor and each later one the
\* endCursor of the page before it; after a page with hasNextPage = false no
\* request is issued; every page appends its kept records in node order (up to
\* max_repos) and nothing else changes the buffer.
C9_Pagination ==
    [][/\ SearchRequestStep =>
            s_after' = (IF requests = 0 THEN None ELSE page_info.endCursor)
       /\ (requests > 0 /\ ~page_info.hasNextPage) => ~SearchRequestStep
       /\ repos' = (IF SearchPageStep
                    THEN repos \o Take(KeptOf(nodes', 1), max_repos - Len(repos))
                    ELSE repos)]_vars

\* C9 witness: the search has returned after two pages, the second one
\* requested with the cursor of the first and reporting no next page, and
\* both pages left a record in the buffer.
C9_Witness ==
    /\ s_pc = "returned"
    /\ requests = 2
    /\ ~s_error
    /\ s_after # None
    /\ ~page_info.hasNextPage
    /\ Len(repos) = 2
    /\ Len(KeptOf(nodes, 1)) = 1
    /\ Len(nodes) = 2

\* C10: with a location filter every buffered record has an owner location
\* containing the filter text, ignoring case; the matched count is the buffer
\* length and at most the scanned count; a page that does not reach max_repos
\* raises the scanned count by its non-null nodes and the matched count by its
\* kept records only.
C10_LocationFilter ==
    /\ [](/\ HasFilter(location_filter) =>
               \A i \in 1..Len(repos) : LocationContains(repos[i], location_filter[1])
          /\ total_matched = Len(repos)
          /\ Len(repos) <= total_fetched)
    /\ [][(SearchPageStep /\ total_matched' < max_repos) =>
            /\ total_fetched' = total_fetched + NonNull(nodes')
            /\ total_matched' = total_matched + Len(KeptOf(nodes', 1))]_vars

\* C10 witness: under a filter a page with a record that differs from the
\* filter text in case only and a record of another location has been
\* processed: one record kept, two scanned.
C10_Witness ==
    /\ HasFilter(location_filter)
    /\ total_fetched = 2
    /\ total_matched = 1
    /\ Len(repos) = 1
    /\ repos[1].owner_location # None
    /\ ~Contains(repos[1].owner_location[1], location_filter[1])

\* C11: with an output path, once a page has been processed every multiple
\* of 100 that the matched count has reached has been flushed: the file holds
\* at least that many records.
C11_FlushCadence ==
    (s_pc = "loop" /\ output_path /\ total_matched >= SAVE_INTERVAL) =>
        /\ persisted # None
        /\ Len(persisted[1]) >= SAVE_INTERVAL * (total_matched \div SAVE_INTERVAL)

\* C12: with an output path, however the loop of search_repositories ends,
\* the operation returns the buffer and the buffer has been flushed.
C12_FinalFlushAlways ==
    (s_pc \notin {"idle", "loop"} /\ output_path /\ repos # <<>>) =>
        /\ s_pc = "returned"
        /\ persisted = Some(repos)

\* C13: a page request that fails ends search_repositories by a return, not a
\* raise; it is the last request, the buffer is what the earlier pages left,
\* and with an output path that buffer is flushed.
C13_PageFailure ==
    /\ [](s_error => s_pc = "returned")
    /\ [][(SearchRequestStep /\ s_error') =>
            /\ s_pc' = "returned"
            /\ repos' = repos
            /\ (output_path /\ repos # <<>>) => persisted' = Some(repos)]_vars
    /\ [][s_error => requests' = requests]_vars

\* C13 witness: the second page request failed after a first page that left a
\* record; the search returned and the file holds that record.
C13_Witness ==
    /\ s_error
    /\ s_pc = "returned"
    /\ requests = 2
    /\ output_path
    /\ repos # <<>>
    /\ persisted = Some(repos)

\* The records in the output file; none if the file does not exist.
PersistedContent == IF persisted = None THEN <<>> ELSE persisted[1]

\* C24: after the final flush of search_repositories the output file holds
\* exactly the buffer, also when the buffer is empty.
C24_FlushEqualsBuffer ==
    (s_pc = "returned" /\ output_path) => PersistedContent = repos

\* -------------------------------------------- fetch_repos_for_users: claims
AccountRequestStep == u_requests' = u_requests + 1

\* C14: every page request of the per-account pagination is preceded by a
\* wait_for_rate_limit call made after the previous request.
C14_CheckedBeforeRequest == [][AccountRequestStep => checked]_vars

\* C20: fetch_repos_for_users never ends by a raise, and an account with a
\* failed page request adds no record to the buffer; the loop goes on with the
\* next account.
C20_AccountFailureIsolated ==
    /\ [](u_pc # "raised")
    /\ [][(AccountRequestStep /\ u_error') =>
            /\ repos' = repos
            /\ u_idx' = u_idx + 1
            /\ u_pc' = "loop"]_vars

\* The records of the non-null nodes of a page, in page order.
RecordsOf(ns) ==
    LET kept == SelectSeq(ns, LAMBDA n : ~n.null)
    IN [i \in 1..Len(kept) |-> ExtractRepoData(kept[i])]
\* A page request of the per-account pagination that was answered.
AccountAnsweredStep == AccountRequestStep /\ ~u_error'
\* The step that ends the pagination of the account of the for loop.
AccountEndStep == u_idx' = u_idx + 1

\* C21: with every request answered, fetch_by_location_two_step returns the
\* concatenation, in discovery order, of the records of every non-null node of
\* every page of each discovered account: the accounts are taken in the order
\* discovery returned them, each answered page appends the records of its
\* non-null nodes, a non-empty page with hasNextPage is followed by the request
\* of the next page, and the end of an account appends its records to the
\* buffer, which is what is returned.
C21_TwoStepConcatenation ==
    /\ [](t_pc = "repos" => usernames = all_users)
    /\ []((t_pc = "repos" /\ u_pc = "returned") => u_idx = Len(usernames) + 1)
    /\ []((t_pc = "repos" /\ u_pc = "loop" /\ u_idx = 1) => repos = <<>>)
    /\ [][(t_pc = "repos" /\ AccountAnsweredStep) =>
            /\ u_sent'[1].query[2] = ToString(usernames[u_idx])
            /\ user_repos' = user_repos \o RecordsOf(u_nodes')
            /\ IF u_nodes' # <<>> /\ u_page_info'.hasNextPage
               THEN /\ u_pc' = "fetch"
                    /\ u_idx' = u_idx
                    /\ u_cursor' = u_page_info'.endCursor
                    /\ repos' = repos
               ELSE /\ AccountEndStep
                    /\ repos' = repos \o user_repos']_vars
    /\ [][(t_pc = "repos" /\ u_pc = "loop" /\ u_pc' = "fetch") =>
            /\ user_repos' = <<>>
            /\ u_cursor' = None
            /\ repos' = repos]_vars
    /\ [][(t_pc = "repos" /\ u_pc' = "returned") => repos' = repos]_vars

\* Two accounts were discovered; the first has three repositories over two
\* pages and the second none: three records, all of the first account.
C21_Witness ==
    /\ t_pc = "repos"
    /\ u_pc = "returned"
    /\ ~u_error
    /\ usernames = <<1, 2>>
    /\ Len(repos) = 3
    /\ \A i \in 1..3 : repos[i].nwo = 1
    /\ u_nodes = <<>>

\* C22: when discovery returns no account, fetch_by_location_two_step returns
\* the empty list at once: fetch_repos_for_users is not entered, no repository
\* search request is issued and nothing is saved.
C22_NoAccountsReturnsEmpty ==
    /\ [][(t_pc = "discovered" /\ t_pc' # t_pc /\ all_users = <<>>) =>
            /\ t_pc' = "returned_empty"
            /\ UNCHANGED <<u_pc, u_requests, u_sent, repos, persisted>>]_vars
    /\ [](t_pc = "returned_empty" =>
            /\ u_pc = "idle"
            /\ u_requests = 0
            /\ u_sent = None
            /\ persisted = None)

\* Discovery found nothing while an output path was given, and the operation
\* has returned.
C22_Witness ==
    /\ t_pc = "returned_empty"
    /\ all_users = <<>>
    /\ output_path

\* C23: in fetch_repos_for_users, once the buffer has reached or passed a
\* multiple of SAVE_INTERVAL at the end of an account, the file holds at least
\* that many records.
C23_CheckpointEveryHundred ==
    (u_pc = "loop" /\ output_path /\ Len(repos) >= SAVE_INTERVAL) =>
        /\ persisted # None
        /\ Len(persisted[1]) >= SAVE_INTERVAL * (Len(repos) \div SAVE_INTERVAL)

\* The query the per-account search is expected to send for the account of
\* the for loop.
ExpectedUserQuery ==
    <<"user:", ToString(usernames[u_idx])>>
    \o (IF min_stars > 0 THEN <<" ", "stars:>=", ToString(min_stars)>> ELSE <<>>)
    \o (IF ~include_forks THEN <<" ", "fork:false">> ELSE <<>>)
    \o (IF extra_filter # "" THEN <<" ", extra_filter>> ELSE <<>>)

\* C27: every page request of an account sends the query "user:<login>",
\* followed by "stars:>=<min_stars>" exactly when min_stars > 0, by
\* "fork:false" exactly when forks are excluded and by the extra filter exactly
\* when it is non-empty, in this order with one space between two parts; the
\* page size is REPOS_PAGE and the cursor is the one of the loop.
C27_PerAccountQuery ==
    [][AccountRequestStep =>
        u_sent' = Some([query |-> ExpectedUserQuery, first |-> REPOS_PAGE,
                        after |-> u_cursor])]_vars

\* The second page of an account was requested with all three filters.
C27_Witness ==
    /\ u_requests = 2
    /\ min_stars = 3
    /\ ~include_forks
    /\ extra_filter = "language:python"
    /\ u_sent # None
    /\ u_sent[1].query = <<"user:", "1", " ", "stars:>=", "3", " ", "fork:false",
                           " ", "language:python">>
    /\ u_sent[1].after # None

\* ------------------------------------------------- extract_repo_data: claims
\* C25: extract_repo_data never raises, and a value that is absent or null in
\* the node is replaced by its default in the record.
C25_ExtractionTotal ==
    (x_pc \notin {"idle", "called"}) =>
        /\ x_pc = "returned"
        /\ (~IsVal(x_node.description) => x_out[1].description = Some(""))
        /\ (~IsVal(x_node.watchers) => x_out[1].watchers = Some(0))
        /\ (~IsVal(x_node.languages) => x_out[1].languages = <<>>)
        /\ (~IsVal(x_node.owner) =>
              /\ x_out[1].owner_company = Some("")
              /\ x_out[1].owner_bio = Some("")
              /\ x_out[1].owner_followers = Some(0))

\* The follower count of an owner dictionary: its followers.totalCount, 0
\* without a followers object.
FollowerCount(o) ==
    IF IsVal(o.followers) /\ IsVal(ValueOf(o.followers).totalCount)
    THEN Some(ValueOf(ValueOf(o.followers).totalCount))
    ELSE IF IsVal(o.followers) /\ ValueOf(o.followers).totalCount = Null
    THEN None
    ELSE Some(0)

C28_ExitProtocol ==
    (m_exit # None) =>
        /\ (m_exit = Some(0)) <=> (m_cause = "ok")
        /\ (m_cause \in {"interrupt", "exception"} /\ m_buffer > 0) =>
              /\ m_saves # <<>>
              /\ m_saves[Len(m_saves)] = m_buffer

\* ------------------------------------------------------- client: claims
\* A step in which execute's body has parsed a response (no transport failure).
ResponseStep ==
    /\ e_calls' = e_calls + 1
    /\ e_delays' = e_delays
    /\ response' # None
    /\ (IF e_exc' = None THEN TRUE ELSE e_exc'[1].type # "RequestException")
\* The snapshot reports fewer than MIN_RATE_LIMIT requests left and a reset time.
LowWithReset ==
    /\ rate_limit # None
    /\ Remaining(rate_limit[1]) < MIN_RATE_LIMIT
    /\ rate_limit[1].resetAt # None
\* The snapshot exists and reports at least MIN_RATE_LIMIT requests left.
EnoughQuota ==
    /\ rate_limit # None
    /\ rate_limit[1].remaining # None
    /\ rate_limit[1].remaining[1] >= MIN_RATE_LIMIT
NonNegative(x) == IF x < 0 THEN 0 ELSE x

\* C15: called with a snapshot of remaining < threshold and a known reset time,
\* wait_for_rate_limit sleeps max(0, seconds until reset + 5) and then probes
\* the quota before it returns.
C15_WaitThenRefresh ==
    [][(c_pc = "decide" /\ LowWithReset) =>
          LET d == NonNegative(rate_limit[1].resetAt[1] - now + WAIT_BUFFER)
          IN /\ now' = now + d
             /\ w_slept' = w_slept + d
             /\ c_pc' = "refresh"
             /\ w_probes' = w_probes + 1]_vars

\* C16: wait_for_rate_limit never sleeps a negative time; with a snapshot of
\* remaining >= threshold it returns without sleep or request; without a
\* snapshot it first probes the quota and decides on what the probe stored.
C16_WaitSafe ==
    /\ [](w_slept >= 0)
    /\ [][w_slept' >= w_slept /\ now' - now >= w_slept' - w_slept]_vars
    /\ [][(c_pc \in {"entry", "decide"} /\ EnoughQuota) =>
            /\ c_pc' = (IF c_pc = "entry" THEN "decide" ELSE "returned")
            /\ UNCHANGED <<now, w_slept, w_probes, e_calls, rate_limit>>]_vars
    /\ [][(c_pc = "entry" /\ rate_limit = None) =>
            /\ c_pc' = "probe_first"
            /\ w_probes' = 1
            /\ UNCHANGED <<now, w_slept>>]_vars
    /\ [][(c_pc = "probe_first" /\ c_pc' = "decide") =>
            /\ e_exc' = None
            /\ response'[1].data.hasRL => rate_limit' = response'[1].data.rl]_vars
    /\ [](c_pc = "decide" => (w_probes = 1 \/ ~Falsy(rate_limit)))

\* C16 witness: called without a snapshot, wait_for_rate_limit has probed,
\* found the quota low, slept, probed again and returned.
C16_Witness ==
    /\ c_op = "wait"
    /\ c_pc = "returned"
    /\ w_probes = 2
    /\ w_slept > 0
    /\ response # None

\* C17: the wrapper calls the function at most max_retries + 1 times; the
\* delay before retry n is min(base_delay * 2^n, 60); after max_retries + 1
\* retryable failures the last one is raised; a call that succeeds ends the
\* wrapper with its result.
C17_BackoffSchedule ==
    /\ Len(e_delays) <= max_retries
    /\ \A n \in 1..Len(e_delays) :
         e_delays[n] = (IF base_delay * (EXPONENTIAL_BASE ^ (n - 1)) < MAX_DELAY
                        THEN base_delay * (EXPONENTIAL_BASE ^ (n - 1)) ELSE MAX_DELAY)
    /\ (c_op = "execute" /\ c_pc = "raised" /\ e_exc[1].type = "RequestException") =>
         /\ e_calls = max_retries + 1
         /\ Len(e_delays) = max_retries
         /\ e_exc[1].detail = <<max_retries>>
         /\ (max_retries = MAX_RETRIES /\ base_delay = BASE_DELAY) =>
               (e_calls = 4 /\ e_delays = <<2, 4, 8>>)
    /\ (c_op = "execute" /\ c_pc \in {"returned", "raised"}) =>
         e_calls = Len(e_delays) + 1
    /\ (c_op = "execute" /\ c_pc = "returned") =>
         (e_exc = None /\ e_value # None)

\* C17 witness: execute has failed four times with a retryable failure.
C17_Witness ==
    /\ c_op = "execute"
    /\ c_pc = "raised"
    /\ max_retries = MAX_RETRIES
    /\ base_delay = BASE_DELAY
    /\ e_calls = 4
    /\ e_delays = <<2, 4, 8>>
    /\ e_exc = Some(Exc("RequestException", <<3>>))

\* C18: a response with an error list makes execute raise at once, without
\* delay, a ValueError whose message is the error messages joined, whatever
\* the data member holds.
C18_ErrorListRaises ==
    [][(ResponseStep /\ response'[1].errors # None) =>
          LET ms == response'[1].errors[1]
          IN /\ c_pc' = "raised"
             /\ now' = now
             /\ e_exc' = Some(Exc("ValueError",
                    IF Len(ms) = 1 THEN <<"GraphQL errors: ", ms[1]>>
                    ELSE <<"GraphQL errors: ", ms[1], "; ", ms[2]>>))]_vars

ExpectedStarsText(n) ==
    <<" ", "s", "t", "a", "r", "s", ":", ">", "=">>
        \o (IF n = 0 THEN <<"0">> ELSE IF n = 5 THEN <<"5">> ELSE <<"1", "2">>)

\* C32: build_search_query with a (non-empty) custom query returns the query
\* unchanged when it contains 'stars:' and the query followed by
\* ' stars:>=<min_stars>' otherwise, whatever the language argument is;
\* applying it again to its own result returns that result.
C32_CustomQueryStars ==
    (b_pc \in {"once", "twice"} /\ b_custom # None /\ b_custom # Some(<<>>)) =>
        /\ b_out = Some(IF Contains(b_custom[1], StarsNeedle)
                        THEN b_custom[1]
                        ELSE b_custom[1] \o ExpectedStarsText(b_min_stars))
        /\ (b_pc = "twice" => b_again = b_out)

C32_Witness ==
    /\ b_pc = "twice"
    /\ b_language = Some(<<"p", "y">>)
    /\ b_min_stars = 12
    /\ b_custom = Some(<<"a">>)
    /\ b_out = Some(<<"a", " ", "s", "t", "a", "r", "s", ":", ">", "=", "1", "2">>)
    /\ b_again = b_out

\* Number of '/' in a text.
SlashCount(str) == Cardinality({i \in 1..Len(str) : str[i] = "/"})

\* C33: fetch_repo_details raises a ValueError, before any rate-limit check
\* or request, for an identifier that does not split into exactly two parts
\* on '/'; for a well-formed identifier a missing repository or a failed
\* lookup request ends in a return of None; self._repos never changes.
C33_RepoDetails ==
    /\ [](SlashCount(r_nwo) # 1 =>
            /\ r_pc \in {"called", "raised"}
            /\ r_waits = 0
            /\ r_sent = None
            /\ r_cause = ""
            /\ (r_pc = "raised" => r_exc # None /\ r_exc[1].type = "ValueError"))
    /\ [][(r_pc = "called" /\ SlashCount(r_nwo) # 1) => r_pc' = "raised"]_vars
    /\ [](r_cause \in {"missing", "failed"} =>
            /\ SlashCount(r_nwo) = 1
            /\ r_pc = "returned"
            /\ r_out = None
            /\ r_exc = None)
    /\ [][(r_pc = "lookup") => (r_pc' = "returned" /\ r_exc' = None)]_vars
    /\ [][repos' = repos]_vars

C33_Witness ==
    /\ r_pc = "returned"
    /\ r_nwo = <<"a", "/", "a">>
    /\ r_cause = "failed"
    /\ r_waits = 1
    /\ r_out = None
    /\ r_exc = None
    /\ repos # <<>>

====
